---- MODULE Spec2Model ----
(***************************************************************************)
(* ev-tracker: the collection pipeline (scripts/util.js, the country       *)
(* parsers and scripts/collect_all.js) as a state machine.                 *)
(*                                                                         *)
(* Three specifications share the module:                                  *)
(*   SpecUtil  - getMonthsSinceStart and filterMissingMonths applied to    *)
(*               inputs drawn from bounded sets;                           *)
(*   Spec      - repeated runs of one adapter against its data directory,  *)
(*               the remote source and the storage being fixed per         *)
(*               behaviour; SpecCrash adds process interruption;           *)
(*   SpecOrch  - runAllParsers of collect_all.js over a zone registry.     *)
(***************************************************************************)
EXTENDS Integers, Sequences, FiniteSets, TLC

VARIABLES
    \* ---- util calls (SpecUtil)
    uIn,        \* the arguments of the call, with the wall clock where it is read
    uOut,       \* what the call returned and left behind
    \* ---- environment of an adapter run, fixed per behaviour
    adapter,    \* which parser module runs
    country,    \* the country code of the data directory it writes to
    clock,      \* new Date(): [year, month]
    remote,     \* month number -> what the remote source answers for that month
    bulk,       \* outcome of the bulk download / listing of FR, SE and CN
    dup,        \* month whose row / article the bulk source lists twice (0: none)
    urlTagged,  \* CN: article URLs carry the "-mon-YYYY-" tag
    unwritable, \* file names for which fs.writeFileSync throws
    \* ---- storage
    dirExists,  \* data/<country>/ev exists
    fs,         \* file name -> content, for the files of that directory
    \* ---- the run
    runNo,      \* runs started so far
    pc,         \* "idle" | "loop" | "done" | "thrown" | "crashed"
    work,       \* the sequence the main loop iterates over
    i,          \* index of the next element of work
    \* ---- observations of the run (history)
    fs0,        \* the storage as it was when the run started
    writeLog,   \* successful writeFileSync calls of this run: [file, existed]
    netLog,     \* requests of this run: [on, persisted]
    attempted,  \* indices of work whose loop body was entered
    prevEnd,    \* how the previous run ended
    \* ---- collect_all.js (SpecOrch)
    orch        \* state of runAllParsers

utilVars == <<uIn, uOut>>
envVars  == <<adapter, country, clock, remote, bulk, dup, urlTagged, unwritable>>
runVars  == <<dirExists, fs, runNo, pc, work, i, fs0, writeLog, netLog,
              attempted, prevEnd>>
vars     == <<utilVars, envVars, runVars, orch>>

-----------------------------------------------------------------------------
(* Bounds of the model *)

\* the wall-clock month of the adapter runs: the range is January..NowMonth
NowMonth == 3
\* runs of the adapter per behaviour
MaxRuns == 2
\* batchSize of the NO adapter (36 in the source), scaled to the short range
BatchSize == 2
\* longest month sequence handed to filterMissingMonths in SpecUtil
MaxSeqLen == 3

-----------------------------------------------------------------------------
(* scripts/util.js *)

RECURSIVE PadStart(_, _, _)
\* String.prototype.padStart(n, c) for a one-character c
PadStart(s, n, c) == IF Len(s) >= n THEN s ELSE PadStart(c \o s, n, c)

\* variant: the month number without padStart
MonthCodeUnpadded(year, month) == ToString(year) \o "-" \o ToString(month)

\* `${year}-${String(month).padStart(2, '0')}`
MonthCode(year, month) ==
    ToString(year) \o "-" \o PadStart(ToString(month), 2, "0")

MonthRec(year, month) == [year |-> year, month |-> month, code |-> MonthCode(year, month)]

RECURSIVE MonthLoop(_, _, _, _)
\* for (let month = 1; month <= endMonth; month++) months.push({...})
MonthLoop(year, month, endMonth, acc) ==
    IF month <= endMonth
    THEN MonthLoop(year, month + 1, endMonth, Append(acc, MonthRec(year, month)))
    ELSE acc

RECURSIVE YearLoop(_, _, _)
\* for (let year = startYear; year <= currentYear; year++)
YearLoop(year, now, acc) ==
    IF year <= now.year
    THEN YearLoop(year + 1, now,
                  MonthLoop(year, 1, IF year = now.year THEN now.month ELSE 12, acc))
    ELSE acc

\* getMonthsSinceStart(startYear), with now = new Date() as (year, month)
GetMonthsSinceStart(startYear, now) == YearLoop(startYear, now, <<>>)

\* variant: an existence check that never finds the file
ExistsSyncNever(files, name) == FALSE

\* fs.existsSync of a file of the data directory
ExistsSync(files, name) == name \in DOMAIN files

\* variant: ensureDir without the mkdirSync
EnsureDirSkip(dir) == dir

\* ensureDir: mkdirSync when the directory is absent; the directory exists after
EnsureDir(dir) == IF ~dir THEN TRUE ELSE dir

\* the fileNamer argument: the default and NL/DE name by m.code, NO by year and month
FileNamer(namer, m) ==
    IF namer = "yearMonth" THEN MonthCode(m.year, m.month) \o ".json"
    ELSE m.code \o ".json"

\* variant: filterMissingMonths without the filter
FilterKeepAll(months, dir, files, namer) ==
    [result |-> months, dir |-> TRUE, files |-> files]

\* filterMissingMonths(months, outDir, fileNamer): the result and the storage left
FilterMissingMonths(months, dir, files, namer) ==
    [ result |-> SelectSeq(months, LAMBDA m : ~ExistsSync(files, FileNamer(namer, m))),
      dir    |-> EnsureDir(dir),
      files  |-> files ]

-----------------------------------------------------------------------------
(* Values the variables of a specification that is not running are held at *)

NoEnv == /\ adapter = "none" /\ country = "none"
         /\ clock = [year |-> 0, month |-> 0]
         /\ remote = <<>> /\ bulk = "ok" /\ dup = 0 /\ urlTagged = TRUE
         /\ unwritable = {}
NoRun == /\ dirExists = FALSE /\ fs = <<>> /\ runNo = 0 /\ pc = "idle"
         /\ work = <<>> /\ i = 1 /\ fs0 = <<>> /\ writeLog = <<>>
         /\ netLog = {} /\ attempted = {} /\ prevEnd = "none"
NoUtil == uIn = [op |-> "none"] /\ uOut = [done |-> FALSE]
NoOrch == orch = [pc |-> "none"]

-----------------------------------------------------------------------------
(* SpecUtil: the two helpers of util.js applied to bounded inputs *)

UtilStartYears == {2019, 2021, 2022, 2023}
UtilNowYears   == {2021, 2022}

\* the months filterMissingMonths is handed: any order, repetitions allowed
UtilMonthPool == {MonthRec(2023, 12), MonthRec(2024, 1), MonthRec(2024, 2)}

\* the NO adapter's month objects: code is "YYYYMnn"
NOMonth(m) ==
    [m EXCEPT !.code = ToString(m.year) \o "M" \o PadStart(ToString(m.month), 2, "0")]

\* a complete record file, as a stand-in for the content of a file already stored
StubRecord(m) ==
    [year |-> m.year, month |-> m.month, data |-> <<>>, region |-> "XX", type |-> "all"]

SeqsUpTo(S, n) == UNION {[1..k -> S] : k \in 0..n}

UtilFiles == {[name \in {m.code \o ".json" : m \in P} |->
                 StubRecord(CHOOSE m \in P : m.code \o ".json" = name)]
              : P \in SUBSET UtilMonthPool}

GetMonthsCalls ==
    {[op |-> "getMonths", startYear |-> y, now |-> [year |-> ny, month |-> nm]]
       : y \in UtilStartYears, ny \in UtilNowYears, nm \in 1..12}

FilterCalls ==
    {[op |-> "filter", months |-> ms, dir |-> d, files |-> f, namer |-> n]
       : ms \in SeqsUpTo(UtilMonthPool, MaxSeqLen), d \in BOOLEAN,
         f \in UtilFiles, n \in {"code", "yearMonth"}}

UtilInit ==
    /\ uIn \in GetMonthsCalls \cup {c \in FilterCalls : c.files # <<>> => c.dir}
    /\ uOut = [done |-> FALSE]
    /\ NoEnv /\ NoRun /\ NoOrch

\* the month objects as the caller built them for its fileNamer
CallMonths(c) ==
    IF c.namer = "yearMonth" THEN [k \in 1..Len(c.months) |-> NOMonth(c.months[k])]
    ELSE c.months

CallGetMonths ==
    /\ uIn.op = "getMonths" /\ ~uOut.done
    /\ uOut' = [done |-> TRUE, months |-> GetMonthsSinceStart(uIn.startYear, uIn.now)]
    /\ UNCHANGED <<uIn, envVars, runVars, orch>>

CallFilter ==
    /\ uIn.op = "filter" /\ ~uOut.done
    /\ LET r == FilterMissingMonths(CallMonths(uIn), uIn.dir, uIn.files, uIn.namer)
       IN  uOut' = [done |-> TRUE, result |-> r.result, dir |-> r.dir, files |-> r.files]
    /\ UNCHANGED <<uIn, envVars, runVars, orch>>

UtilNext == CallGetMonths \/ CallFilter

SpecUtil == UtilInit /\ [][UtilNext]_vars

-----------------------------------------------------------------------------
(* C7: getMonthsSinceStart(startYear) at wall-clock month (Y, M) returns the
   (Y - startYear) * 12 + M month keys from (startYear, 1) through (Y, M), in
   increasing order without gap or duplicate, each with the zero-padded code
   'YYYY-MM'; it returns the empty sequence when startYear > Y. *)
C7_MonthKeys ==
    (uIn.op = "getMonths" /\ uOut.done) =>
        LET s == uIn.startYear
            Y == uIn.now.year
            M == uIn.now.month
            r == uOut.months
        IN  IF s > Y THEN r = <<>>
            ELSE /\ Len(r) = (Y - s) * 12 + M
                 /\ \A k \in 1..Len(r) :
                      /\ r[k].year = s + ((k - 1) \div 12)
                      /\ r[k].month = ((k - 1) % 12) + 1
                      /\ Len(r[k].code) = 7
                      /\ r[k].code = ToString(r[k].year) \o "-"
                            \o (IF r[k].month < 10 THEN "0" ELSE "")
                            \o ToString(r[k].month)

\* the spec's example: start year 2021, wall clock 2022-03, 15 keys
C7_Witness ==
    /\ uIn.op = "getMonths" /\ uOut.done
    /\ uIn.startYear = 2021 /\ uIn.now = [year |-> 2022, month |-> 3]
    /\ Len(uOut.months) = 15
    /\ uOut.months[15].code = "2022-03"

(* C8: filterMissingMonths(months, outDir, fileNamer) returns exactly the
   elements m of months whose file fileNamer(m) does not exist in outDir, in
   their input order; outDir exists afterwards and no record file is created,
   modified or deleted. *)
C8_FilterMissing ==
    (uIn.op = "filter" /\ uOut.done) =>
        LET ms   == CallMonths(uIn)
            keep == {k \in 1..Len(ms) : FileNamer(uIn.namer, ms[k]) \notin DOMAIN uIn.files}
            nth(j) == CHOOSE k \in keep : Cardinality({k2 \in keep : k2 <= k}) = j
        IN  /\ Len(uOut.result) = Cardinality(keep)
            /\ \A j \in 1..Len(uOut.result) : uOut.result[j] = ms[nth(j)]
            /\ uOut.dir
            /\ uOut.files = uIn.files

\* three months in, the middle one already stored, two come back
C8_Witness ==
    /\ uIn.op = "filter" /\ uOut.done
    /\ Len(uIn.months) = 3 /\ Len(uOut.result) = 2
    /\ FileNamer(uIn.namer, CallMonths(uIn)[2]) \in DOMAIN uIn.files
    /\ uOut.result = <<CallMonths(uIn)[1], CallMonths(uIn)[3]>>

-----------------------------------------------------------------------------
(* Spec: runs of one adapter.  The environment                              *)

Adapters        == {"NL", "DE", "NO", "ACEA", "FR", "SE", "CN"}
MonthlyAdapters == {"NL", "DE", "NO", "ACEA"}
BulkAdapters    == {"FR", "SE", "CN"}
\* collectAceaData(countryCode): two of the exported per-country entry points
AceaCountries   == {"FR", "ES"}

\* the start year each adapter passes to getMonthsSinceStart
StartYear(a) ==
    CASE a = "NL"   -> 2019
      [] a = "DE"   -> 2021
      [] a = "NO"   -> 2011
      [] a = "ACEA" -> 2024

\* the year of the wall clock: the adapter's first year, so that the range is short
ScenarioYear(a) == IF a \in MonthlyAdapters THEN StartYear(a) ELSE 2025

\* What the source answers for one month: the request fails (ok = FALSE), or it
\* yields the number of electric registrations of the month (0: no figure)
Responses == {[ok |-> FALSE, count |-> 0]} \cup {[ok |-> TRUE, count |-> c] : c \in {0, 120}}

MonthNos == 1..NowMonth

\* the record file of month number mo of the range
RangeName(mo) == MonthCode(clock.year, mo) \o ".json"
RangeNames    == {RangeName(mo) : mo \in MonthNos}

Init ==
    /\ adapter \in Adapters
    /\ country \in (IF adapter = "ACEA" THEN AceaCountries ELSE {adapter})
    /\ clock = [year |-> ScenarioYear(adapter), month |-> NowMonth]
    /\ bulk \in (IF adapter \in BulkAdapters THEN {"ok", "absent", "error"} ELSE {"ok"})
    /\ remote \in (IF bulk = "ok" THEN [MonthNos -> Responses]
                   ELSE {[mo \in MonthNos |-> [ok |-> FALSE, count |-> 0]]})
    /\ dup \in (IF adapter \in BulkAdapters /\ bulk = "ok" THEN 0..NowMonth ELSE {0})
    /\ urlTagged \in (IF adapter = "CN" THEN BOOLEAN ELSE {TRUE})
    /\ unwritable \in (IF bulk = "ok"
                       THEN {{}} \cup {{MonthCode(clock.year, mo) \o ".json"} : mo \in MonthNos}
                       ELSE {{}})
    /\ dirExists = FALSE /\ fs = <<>> /\ fs0 = <<>>
    /\ runNo = 0 /\ pc = "idle" /\ work = <<>> /\ i = 1
    /\ writeLog = <<>> /\ netLog = {} /\ attempted = {} /\ prevEnd = "none"
    /\ NoUtil /\ NoOrch

-----------------------------------------------------------------------------
(* Storage and the bookkeeping shared by the adapters *)

\* fs.writeFileSync(path, content) when it succeeds: creates or replaces the file
WriteFileSync(files, name, content) ==
    [n \in (DOMAIN files) \cup {name} |-> IF n = name THEN content ELSE files[n]]

\* The effect of a run so far: storage, the write and request logs, and whether
\* an exception is propagating
St0 == [fs |-> fs, log |-> writeLog, net |-> netLog, thrown |-> FALSE]

\* one writeFileSync call: throws on an unwritable path, else writes and is logged
TryWrite(st, name, content) ==
    IF name \in unwritable
    THEN [st EXCEPT !.thrown = TRUE]
    ELSE [st EXCEPT !.fs  = WriteFileSync(st.fs, name, content),
                    !.log = Append(st.log, [file |-> name, existed |-> name \in DOMAIN st.fs])]

\* one request on behalf of month number mo (0: the bulk file or listing)
Request(st, mo, name) ==
    [st EXCEPT !.net = st.net \cup {[on |-> mo, persisted |-> name \in DOMAIN st.fs]}]

\* a try/catch around st: the exception is logged and swallowed
Caught(st) == [st EXCEPT !.thrown = FALSE]

\* monthCode.split('-') / the /^(\d{4})M(\d{2})$/ match, then parseInt: the
\* (year, month) a code of the range stands for
ParseCode(code) ==
    CHOOSE ym \in {clock.year} \X (1..12) :
        code \in {MonthCode(ym[1], ym[2]),
                  ToString(ym[1]) \o "M" \o PadStart(ToString(ym[2]), 2, "0")}

Entry(marque, modele, total, energie) ==
    [marque |-> marque, modele |-> modele, total |-> total, energie |-> energie]

\* a run starts: from the initial state or after the previous run ended
BeginRun(a) ==
    /\ adapter = a
    /\ pc \in {"idle", "done", "thrown", "crashed"}
    /\ runNo < MaxRuns
    /\ runNo' = runNo + 1
    /\ prevEnd' = pc
    /\ fs0' = fs
    /\ attempted' = {}
    /\ UNCHANGED <<utilVars, envVars, orch>>

\* the main loop is entered over w, or the function returns when w is empty
EnterLoop(w) ==
    /\ work' = w /\ i' = 1
    /\ pc' = IF w = <<>> THEN "done" ELSE "loop"

\* one iteration of the main loop that consumed n elements and left st
LoopStep(st, n) ==
    /\ fs' = st.fs /\ writeLog' = st.log /\ netLog' = st.net
    /\ attempted' = attempted \cup {k \in i..(i + n - 1) : k <= Len(work)}
    /\ i' = i + n
    /\ pc' = IF st.thrown THEN "thrown"
             ELSE IF i + n > Len(work) THEN "done" ELSE "loop"
    /\ UNCHANGED <<dirExists, work, runNo, fs0, prevEnd, utilVars, envVars, orch>>

\* the start of a monthly adapter: getMonthsSinceStart, then filterMissingMonths
StartMonthly(all, namer) ==
    LET r == FilterMissingMonths(all, dirExists, fs, namer)
    IN  /\ dirExists' = r.dir
        /\ fs' = r.files
        /\ EnterLoop(r.result)
        /\ writeLog' = <<>> /\ netLog' = {}

-----------------------------------------------------------------------------
(* scripts/parsers/NL.js *)

\* fetchMonthData: the fuel counts of the month; every request error is caught
\* inside and leaves the counts empty.  mapFuelType('Elektriciteit') = 'BEV'
NLFetchMonthData(resp) ==
    IF resp.ok /\ resp.count > 0 THEN <<[energie |-> "BEV", total |-> resp.count]>> ELSE <<>>

\* the record saveMonthlyData builds
NLRecord(monthCode, fuelData) ==
    [year   |-> ParseCode(monthCode)[1],
     month  |-> ParseCode(monthCode)[2],
     data   |-> [k \in 1..Len(fuelData) |->
                    Entry("ALL", "ALL", fuelData[k].total, fuelData[k].energie)],
     region |-> "NL",
     type   |-> "all"]

\* saveMonthlyData(monthCode, fuelData)
NLSaveMonthlyData(st, monthCode, fuelData) ==
    TryWrite(st, monthCode \o ".json", NLRecord(monthCode, fuelData))

\* variant: the save is not guarded by the number of fuel types
NLHasDataAlways(fuelData) == TRUE

\* "Only save if we got meaningful data"
NLHasData(fuelData) == Len(fuelData) > 0

NLStart ==
    /\ BeginRun("NL")
    /\ StartMonthly(GetMonthsSinceStart(StartYear("NL"), clock), "code")

\* the body of the for loop of fetchAllEVData, in its try/catch
NLProcessMonth(st, m) ==
    LET st1      == Request(st, m.month, m.code \o ".json")
        fuelData == NLFetchMonthData(remote[m.month])
    IN  IF NLHasData(fuelData)
        THEN Caught(NLSaveMonthlyData(st1, m.code, fuelData))
        ELSE st1

NLMonth ==
    /\ adapter = "NL" /\ pc = "loop"
    /\ LoopStep(NLProcessMonth(St0, work[i]), 1)

-----------------------------------------------------------------------------
(* The DE adapter (KBA) *)

\* fetchMonthData(year, month): the first candidate URL that downloads and
\* parses to a non-empty fuel table, or null (here the empty table)
DEFetchMonthData(resp) ==
    IF resp.ok /\ resp.count > 0 THEN <<[energie |-> "BEV", total |-> resp.count]>> ELSE <<>>

DERecord(year, month, fuelData) ==
    [year   |-> year,
     month  |-> month,
     data   |-> [k \in 1..Len(fuelData) |->
                    Entry("Alle Marken", "Alle Modelle", fuelData[k].total, fuelData[k].energie)],
     region |-> "DE",
     type   |-> "all"]

\* saveMonthlyData(year, month, fuelData)
DESaveMonthlyData(st, year, month, fuelData) ==
    TryWrite(st, MonthCode(year, month) \o ".json", DERecord(year, month, fuelData))

\* fuelData && Object.keys(fuelData).length > 0
DEHasData(fuelData) == Len(fuelData) > 0

DEStart ==
    /\ BeginRun("DE")
    /\ StartMonthly(GetMonthsSinceStart(StartYear("DE"), clock), "code")

\* the body of the for loop of fetchAllEVData, in its try/catch
DEProcessMonth(st, m) ==
    LET st1      == Request(st, m.month, m.code \o ".json")
        fuelData == DEFetchMonthData(remote[m.month])
    IN  IF DEHasData(fuelData)
        THEN Caught(DESaveMonthlyData(st1, m.year, m.month, fuelData))
        ELSE st1

DEMonth ==
    /\ adapter = "DE" /\ pc = "loop"
    /\ LoopStep(DEProcessMonth(St0, work[i]), 1)

-----------------------------------------------------------------------------
(* The ACEA adapter (press-release PDF) *)

\* parsePdfData: six entries in fixed order, whatever the figures are
AceaParsePdfData(resp) ==
    << [energie |-> "BEV",      total |-> resp.count],
       [energie |-> "PHEV",     total |-> 0],
       [energie |-> "HYBRID",   total |-> 0],
       [energie |-> "DIESEL",   total |-> 0],
       [energie |-> "GASOLINE", total |-> 0],
       [energie |-> "OTHER",    total |-> 0] >>

\* the output object of processAceaMonth
AceaRecord(year, month, rawData) ==
    [year  |-> year,
     month |-> month,
     data  |-> [k \in 1..Len(rawData) |->
                   Entry("Toutes marques", "Tous modeles", rawData[k].total, rawData[k].energie)]]

\* processAceaMonth(year, month, countryCode, outDir): fetch, parse and write in
\* one try/catch
ProcessAceaMonth(st, year, month) ==
    LET name == MonthCode(year, month) \o ".json"
        st1  == Request(st, month, name)
    IN  IF ~remote[month].ok THEN st1
        ELSE Caught(TryWrite(st1, name, AceaRecord(year, month, AceaParsePdfData(remote[month]))))

\* collectAceaData(countryCode, startYear = 2024) up to its loop
AceaStart ==
    /\ BeginRun("ACEA")
    /\ StartMonthly(GetMonthsSinceStart(StartYear("ACEA"), clock), "code")

AceaMonth ==
    /\ adapter = "ACEA" /\ pc = "loop"
    /\ LoopStep(ProcessAceaMonth(St0, work[i].year, work[i].month), 1)

-----------------------------------------------------------------------------
(* The NO adapter (SSB table 14020, JSON-stat) *)

\* mapFuelType(code)
NOMapFuelType(code) ==
    CASE code = "19" -> "BEV"
      [] code = "20" -> "FOSSIL"
      [] code = "21" -> "HYBRID"
      [] code = "6"  -> "OTHER"
      [] OTHER       -> "UNKNOWN"

\* results[monthCode] of parseJsonStat: a value per requested fuel code, in the
\* order of the request, 0 where the source has none
NOResults(resp) ==
    << [code |-> "19", total |-> resp.count],
       [code |-> "20", total |-> 0],
       [code |-> "21", total |-> 0],
       [code |-> "6",  total |-> 0] >>

\* fetchMonthsBatch(monthCodes) rejects when the source cannot answer one of the
\* requested periods
NOBatchFails(ms) == \E k \in 1..Len(ms) : ~remote[ms[k].month].ok

\* the data array of saveMonthlyData: the entries with total > 0
NOData(fuelData) ==
    LET kept == SelectSeq(fuelData, LAMBDA e : e.total > 0)
    IN  [k \in 1..Len(kept) |->
            Entry("Toutes marques", "Tous modeles", kept[k].total, NOMapFuelType(kept[k].code))]

\* saveMonthlyData(monthCode, fuelData): nothing is written when data is empty
NOSaveMonthlyData(st, monthCode, fuelData) ==
    LET ym   == ParseCode(monthCode)
        data == NOData(fuelData)
    IN  IF Len(data) = 0 THEN st
        ELSE TryWrite(st, MonthCode(ym[1], ym[2]) \o ".json",
                      [year |-> ym[1], month |-> ym[2], data |-> data,
                       region |-> "NO", type |-> "all"])

RECURSIVE NOSaveEach(_, _, _)
\* the inner loop of the try block: save each month, until a save throws
NOSaveEach(st, ms, k) ==
    IF k > Len(ms) \/ st.thrown THEN st
    ELSE NOSaveEach(NOSaveMonthlyData(st, ms[k].code, NOResults(remote[ms[k].month])), ms, k + 1)

RECURSIVE NOFallback(_, _, _)
\* the catch block: every month of the batch is fetched and saved on its own, an
\* error of one month being caught
NOFallback(st, ms, k) ==
    IF k > Len(ms) THEN st
    ELSE LET m   == ms[k]
             st1 == Request(st, m.month, FileNamer("yearMonth", m))
             st2 == IF remote[m.month].ok
                    THEN Caught(NOSaveMonthlyData(st1, m.code, NOResults(remote[m.month])))
                    ELSE st1
         IN  NOFallback(st2, ms, k + 1)

RECURSIVE NORequestEach(_, _, _)
\* the batch request names every month of the batch
NORequestEach(st, ms, k) ==
    IF k > Len(ms) THEN st
    ELSE NORequestEach(Request(st, ms[k].month, FileNamer("yearMonth", ms[k])), ms, k + 1)

\* one iteration of the batch loop of fetchAllEVData
NOProcessBatch(st, batch) ==
    LET st1 == NORequestEach(st, batch, 1)
        st2 == IF NOBatchFails(batch) THEN [st1 EXCEPT !.thrown = TRUE]
               ELSE NOSaveEach(st1, batch, 1)
    IN  IF st2.thrown THEN NOFallback(Caught(st2), batch, 1) ELSE st2

NOStart ==
    /\ BeginRun("NO")
    /\ LET raw == GetMonthsSinceStart(StartYear("NO"), clock)
       IN  StartMonthly([k \in 1..Len(raw) |-> NOMonth(raw[k])], "yearMonth")

\* missingMonths.slice(i, i + batchSize)
NOSlice(ms, from) ==
    SubSeq(ms, from, IF from + BatchSize - 1 < Len(ms) THEN from + BatchSize - 1 ELSE Len(ms))

NOBatch ==
    /\ adapter = "NO" /\ pc = "loop"
    /\ LoopStep(NOProcessBatch(St0, NOSlice(work, i)), BatchSize)

-----------------------------------------------------------------------------
(* The bulk sources: what FR, SE and CN download *)

\* the rows of the sheet / CSV: one per month the source has, in order, the row
\* of month dup twice
BulkRows ==
    LET row(mo) == [year |-> clock.year, month |-> mo, count |-> remote[mo].count]
        F[k \in 0..NowMonth] ==
            IF k = 0 THEN <<>>
            ELSE F[k - 1] \o (IF ~remote[k].ok THEN <<>>
                              ELSE IF dup = k THEN <<row(k), row(k)>> ELSE <<row(k)>>)
    IN  F[NowMonth]

\* the articles of the listing: one per month, the article of month dup twice
Articles ==
    LET F[k \in 0..NowMonth] ==
            IF k = 0 THEN <<>>
            ELSE F[k - 1] \o (IF dup = k THEN <<k, k>> ELSE <<k>>)
    IN  F[NowMonth]

\* every month of the range has its record file
AllPersisted(files) == RangeNames \subseteq DOMAIN files

\* the download of the bulk file or listing, on behalf of no single month
BulkRequest(st) ==
    [st EXCEPT !.net = st.net \cup {[on |-> 0, persisted |-> AllPersisted(st.fs)]}]

\* the start of a bulk adapter, up to its write loop
StartBulk(st, dirAfter, rows, ends) ==
    /\ dirExists' = dirAfter
    /\ fs' = st.fs /\ writeLog' = <<>> /\ netLog' = st.net
    /\ work' = rows /\ i' = 1
    /\ pc' = IF ends # "" THEN ends ELSE IF rows = <<>> THEN "done" ELSE "loop"

EmptyLog == [fs |-> fs, log |-> <<>>, net |-> {}, thrown |-> FALSE]

-----------------------------------------------------------------------------
(* scripts/parsers/FR.js (lines 1-225): the French spreadsheet *)

\* the aggregated values of a row: only val > 0 is kept
FRData(row) ==
    IF row.count > 0 THEN <<Entry("Toutes marques", "Tous modeles", row.count, "BEV")>>
    ELSE <<>>

\* the body of the row loop: skip an existing file, else write; no try/catch
FRProcessRow(st, row) ==
    LET data == FRData(row)
        name == MonthCode(row.year, row.month) \o ".json"
    IN  IF Len(data) > 0 /\ ~ExistsSync(st.fs, name)
        THEN TryWrite(st, name, [year |-> row.year, month |-> row.month, data |-> data,
                                 region |-> "FR", type |-> "all"])
        ELSE st

\* fetchAndProcessExcel up to the row loop: the page and the workbook are always
\* downloaded; a page that is not found returns, a failed download throws
FRStart ==
    /\ BeginRun("FR")
    /\ StartBulk(BulkRequest(EmptyLog),
                 IF bulk = "ok" THEN TRUE ELSE dirExists,
                 IF bulk = "ok" THEN BulkRows ELSE <<>>,
                 CASE bulk = "error" -> "thrown" [] bulk = "absent" -> "done" [] OTHER -> "")

FRRow ==
    /\ adapter = "FR" /\ pc = "loop"
    /\ LoopStep(FRProcessRow(St0, work[i]), 1)

-----------------------------------------------------------------------------
(* The SE adapter (SCB bulk CSV) *)

\* monthlyData: the national rows grouped by month key in first-seen order, the
\* counts of one key added up
SEMonthlyData(rows) ==
    LET F[k \in 0..Len(rows)] ==
            IF k = 0 THEN <<>>
            ELSE LET prev == F[k - 1]
                     r    == rows[k]
                 IN  IF \E j \in 1..Len(prev) : prev[j].month = r.month
                     THEN [j \in 1..Len(prev) |->
                             IF prev[j].month = r.month
                             THEN [prev[j] EXCEPT !.count = prev[j].count + r.count]
                             ELSE prev[j]]
                     ELSE Append(prev, r)
    IN  F[Len(rows)]

SEData(group) ==
    IF group.count > 0 THEN <<Entry("Toutes marques", "Tous modeles", group.count, "BEV")>>
    ELSE <<>>

\* the body of the write loop: skip an existing file, else write; no try/catch
SEProcessMonth(st, group) ==
    LET data == SEData(group)
        name == MonthCode(group.year, group.month) \o ".json"
    IN  IF Len(data) > 0 /\ ~ExistsSync(st.fs, name)
        THEN TryWrite(st, name, [year |-> group.year, month |-> group.month, data |-> data,
                                 region |-> "SE", type |-> "all"])
        ELSE st

\* fetchAndProcessCSV up to the write loop: the archive is always downloaded; a
\* failed download throws, an archive without CSV returns
SEStart ==
    /\ BeginRun("SE")
    /\ StartBulk(BulkRequest(EmptyLog),
                 IF bulk = "ok" THEN TRUE ELSE dirExists,
                 IF bulk = "ok" THEN SEMonthlyData(BulkRows) ELSE <<>>,
                 CASE bulk = "error" -> "thrown" [] bulk = "absent" -> "done" [] OTHER -> "")

SERow ==
    /\ adapter = "SE" /\ pc = "loop"
    /\ LoopStep(SEProcessMonth(St0, work[i]), 1)

-----------------------------------------------------------------------------
(* The CN adapter (CAAM figures relayed by CnEVPost) *)

\* currentMonth, lastMonth and twoMonthsAgo of fetchAllEVData; g is now.getMonth()
CNCurrentMonth(now) == MonthCode(now.year, now.month)
CNLastMonth(now) ==
    LET g == now.month - 1
    IN  IF g = 0 THEN ToString(now.year - 1) \o "-12"
        ELSE ToString(now.year) \o "-" \o PadStart(ToString(g), 2, "0")
CNTwoMonthsAgo(now) ==
    LET g == now.month - 1
    IN  IF g <= 1 THEN ToString(now.year - 1) \o "-" \o PadStart(ToString(12 + g - 1), 2, "0")
        ELSE ToString(now.year) \o "-" \o PadStart(ToString(g - 1), 2, "0")

\* "Les donnees recentes sont a jour": the three latest months are all stored
CNUpToDate(existing, now) ==
    {CNCurrentMonth(now) \o ".json", CNLastMonth(now) \o ".json",
     CNTwoMonthsAgo(now) \o ".json"} \subseteq existing

RECURSIVE CNReadArticles(_, _, _, _)
\* the article loop of findLatestDataFromCnEVPost: an article whose URL names a
\* month already stored is skipped before it is read; a failed read is caught;
\* an article with a figure yields an item
CNReadArticles(acc, arts, k, existing) ==
    IF k > Len(arts) THEN acc
    ELSE LET mo   == arts[k]
             name == MonthCode(clock.year, mo) \o ".json"
         IN  IF urlTagged /\ name \in existing
             THEN CNReadArticles(acc, arts, k + 1, existing)
             ELSE LET st1 == Request(acc.st, mo, name)
                      got == remote[mo].ok /\ remote[mo].count > 0
                  IN  CNReadArticles(
                          [st    |-> st1,
                           items |-> IF got
                                     THEN Append(acc.items, [year |-> clock.year, month |-> mo,
                                                             BEV |-> remote[mo].count])
                                     ELSE acc.items],
                          arts, k + 1, existing)

\* findLatestDataFromCnEVPost(existingFiles): the listing is read, then the
\* articles; every error is caught inside
CNFindLatestData(st, existing) ==
    LET st1 == BulkRequest(st)
    IN  IF bulk # "ok" THEN [st |-> st1, items |-> <<>>]
        ELSE CNReadArticles([st |-> st1, items |-> <<>>], Articles, 1, existing)

\* the data array of an item: the BEV figure when there is one
CNData(item) ==
    IF item.BEV > 0 THEN <<Entry("all brands", "all models", item.BEV, "BEV")>> ELSE <<>>

\* the body of the write loop: no existence check, no try/catch
CNProcessItem(st, item) ==
    LET data == CNData(item)
    IN  IF Len(data) > 0
        THEN TryWrite(st, MonthCode(item.year, item.month) \o ".json",
                      [year |-> item.year, month |-> item.month, data |-> data,
                       region |-> "CN", type |-> "all"])
        ELSE st

\* fetchAllEVData() up to the write loop
CNStart ==
    /\ BeginRun("CN")
    /\ LET existing == DOMAIN fs
       IN  IF CNUpToDate(existing, clock)
           THEN StartBulk(EmptyLog, TRUE, <<>>, "done")
           ELSE LET found == CNFindLatestData(EmptyLog, existing)
                    new   == SelectSeq(found.items,
                                LAMBDA it : (MonthCode(it.year, it.month) \o ".json")
                                              \notin existing)
                IN  StartBulk(found.st, TRUE, new, "")

CNItem ==
    /\ adapter = "CN" /\ pc = "loop"
    /\ LoopStep(CNProcessItem(St0, work[i]), 1)

-----------------------------------------------------------------------------
(* Process interruption (SpecCrash) *)

\* what the pending iteration of the main loop would do from the current state
PendingStep ==
    CASE adapter = "NL"   -> NLProcessMonth(St0, work[i])
      [] adapter = "DE"   -> DEProcessMonth(St0, work[i])
      [] adapter = "ACEA" -> ProcessAceaMonth(St0, work[i].year, work[i].month)
      [] adapter = "NO"   -> NOProcessBatch(St0, NOSlice(work, i))
      [] adapter = "FR"   -> FRProcessRow(St0, work[i])
      [] adapter = "SE"   -> SEProcessMonth(St0, work[i])
      [] adapter = "CN"   -> CNProcessItem(St0, work[i])

\* a file writeFileSync has opened (created or truncated) and not finished writing
PartialFile == [partial |-> TRUE]

\* the process is killed between two iterations
Crash ==
    /\ pc = "loop"
    /\ pc' = "crashed"
    /\ UNCHANGED <<dirExists, fs, runNo, work, i, fs0, writeLog, netLog, attempted,
                   prevEnd, utilVars, envVars, orch>>

\* the process is killed inside the first writeFileSync of the pending iteration:
\* the file exists, its content is incomplete
CrashMidWrite ==
    /\ pc = "loop"
    /\ Len(PendingStep.log) > Len(writeLog)
    /\ fs' = WriteFileSync(fs, PendingStep.log[Len(writeLog) + 1].file, PartialFile)
    /\ pc' = "crashed"
    /\ UNCHANGED <<dirExists, runNo, work, i, fs0, writeLog, netLog, attempted,
                   prevEnd, utilVars, envVars, orch>>

-----------------------------------------------------------------------------
Next ==
    \/ NLStart \/ NLMonth
    \/ DEStart \/ DEMonth
    \/ AceaStart \/ AceaMonth
    \/ NOStart \/ NOBatch
    \/ FRStart \/ FRRow
    \/ SEStart \/ SERow
    \/ CNStart \/ CNItem

Spec == Init /\ [][Next]_vars

NextCrash ==
    \/ NLStart \/ NLMonth
    \/ DEStart \/ DEMonth
    \/ AceaStart \/ AceaMonth
    \/ NOStart \/ NOBatch
    \/ FRStart \/ FRRow
    \/ SEStart \/ SERow
    \/ CNStart \/ CNItem
    \/ Crash \/ CrashMidWrite

SpecCrash == Init /\ [][NextCrash]_vars

-----------------------------------------------------------------------------
(* SpecOrch: scripts/collect_all.js *)

\* the zone codes of config/zones.yaml, in file order
ZoneCodes == <<"FR", "NO">>

\* a registered parser: whether its script file exists, and whether the promise
\* of its function resolves or rejects
ParserKinds == {[exists |-> FALSE, rejects |-> FALSE],
                [exists |-> TRUE,  rejects |-> FALSE],
                [exists |-> TRUE,  rejects |-> TRUE]}

\* zone.parsers: absent or empty (<<>>), or up to two categories
ParserLists == SeqsUpTo(ParserKinds, 2)

\* process.argv[2]: absent (""), a registered zone, or an unknown code
TargetZones == {"", "XX"} \cup {ZoneCodes[k] : k \in 1..Len(ZoneCodes)}

ZoneRegistered(code) == \E k \in 1..Len(ZoneCodes) : ZoneCodes[k] = code

\* zonesToProcess, as indices of ZoneCodes in iteration order
ZonesToProcess(target) ==
    IF target # ""
    THEN SelectSeq([k \in 1..Len(ZoneCodes) |-> k], LAMBDA k : ZoneCodes[k] = target)
    ELSE [k \in 1..Len(ZoneCodes) |-> k]

\* the (zone, parser) pairs the two nested loops visit, in order
ParserVisits(zs, parsers) ==
    LET F[k \in 0..Len(zs)] ==
            IF k = 0 THEN <<>>
            ELSE F[k - 1] \o [j \in 1..Len(parsers[zs[k]]) |-> <<zs[k], j>>]
    IN  F[Len(zs)]

OrchInit ==
    /\ \E t \in TargetZones, ps \in [1..Len(ZoneCodes) -> ParserLists] :
          orch = [pc |-> "start", target |-> t, parsers |-> ps, visits |-> <<>>,
                  k |-> 1, invoked |-> {}, warned |-> {}, exitCode |-> -1]
    /\ NoEnv /\ NoRun /\ NoUtil

\* runAllParsers up to its loops: an unknown zone code exits with code 1
OrchStart ==
    /\ orch.pc = "start"
    /\ orch' = IF orch.target # "" /\ ~ZoneRegistered(orch.target)
               THEN [orch EXCEPT !.pc = "exit", !.exitCode = 1]
               ELSE [orch EXCEPT !.pc = "loop",
                        !.visits = ParserVisits(ZonesToProcess(orch.target), orch.parsers)]
    /\ UNCHANGED <<utilVars, envVars, runVars>>

\* the body of the inner loop for one parser: a missing script is warned about;
\* the parser's function is awaited with no try/catch, so its rejection rejects
\* runAllParsers and the .catch handler exits with code 1
OrchParser ==
    /\ orch.pc = "loop" /\ orch.k <= Len(orch.visits)
    /\ LET v == orch.visits[orch.k]
           q == orch.parsers[v[1]][v[2]]
       IN  orch' = IF ~q.exists
                   THEN [orch EXCEPT !.warned = @ \cup {v}, !.k = @ + 1]
                   ELSE IF q.rejects
                   THEN [orch EXCEPT !.invoked = @ \cup {v}, !.pc = "exit", !.exitCode = 1]
                   ELSE [orch EXCEPT !.invoked = @ \cup {v}, !.k = @ + 1]
    /\ UNCHANGED <<utilVars, envVars, runVars>>

\* runAllParsers resolved: 'All parsers finished.', process.exit(0)
OrchFinish ==
    /\ orch.pc = "loop" /\ orch.k > Len(orch.visits)
    /\ orch' = [orch EXCEPT !.pc = "exit", !.exitCode = 0]
    /\ UNCHANGED <<utilVars, envVars, runVars>>

OrchNext == OrchStart \/ OrchParser \/ OrchFinish

SpecOrch == OrchInit /\ [][OrchNext]_vars

-----------------------------------------------------------------------------
(* C1: in any run of any adapter every record path is written at most once,
   and only if it did not exist when it was written. *)
C1_WriteOnce ==
    \A k \in 1..Len(writeLog) :
        /\ ~writeLog[k].existed
        /\ \A j \in 1..(k - 1) : writeLog[j].file # writeLog[k].file

(* C2: a second run in succession, the remote source answering as before,
   writes no file: the stored files and their contents are those the first run
   left. *)
C2_Idempotent == runNo >= 2 => (writeLog = <<>> /\ fs = fs0)

\* a second run that had months to process after a first run that stored some
C2_Witness ==
    /\ runNo = 2 /\ pc = "done" /\ prevEnd = "done"
    /\ attempted # {} /\ DOMAIN fs # {}

(* C3 as stated: on a re-run no request is made on behalf of a month whose
   record file exists, and none at all when every month of the range is
   persisted - for every adapter. *)
C3_OnlyMissingFetched == runNo >= 2 => \A r \in netLog : ~r.persisted

(* C3 amended: the NL, DE, ACEA and NO adapters request only months whose
   record file was missing when the run started, and nothing when none was
   missing. *)
C3_MonthlyOnlyMissingFetched ==
    adapter \in MonthlyAdapters =>
        /\ \A r \in netLog : r.on # 0 /\ RangeName(r.on) \notin DOMAIN fs0
        /\ AllPersisted(fs0) => netLog = {}

\* a re-run of a monthly adapter with some months stored and others requested
C3_Witness ==
    /\ adapter \in MonthlyAdapters /\ runNo = 2 /\ pc = "done"
    /\ DOMAIN fs0 # {} /\ netLog # {}

(* C4: a failure while processing one month - fetch, parse or write - does not
   prevent any later month of the same run from being processed: when the run
   has ended, the loop body was entered for every element of its work list. *)
C4_MonthIsolation ==
    pc \in {"done", "thrown"} => attempted = 1..Len(work)

(* C6: after an interruption, the existence check at the start of the next run
   counts a month as persisted only if its complete record is stored. *)
C6_CrashConsistency ==
    (adapter \in MonthlyAdapters /\ prevEnd = "crashed" /\ pc \in {"loop", "done"}) =>
        \A mo \in MonthNos :
            (\A k \in 1..Len(work) : work[k].month # mo) =>
                /\ RangeName(mo) \in DOMAIN fs
                /\ {"year", "month", "data"} \subseteq DOMAIN fs[RangeName(mo)]

(* C9: no stored record has an empty data array: a month whose extraction
   yields no fuel entry gets no file. *)
C9_NoEmptyRecord ==
    \A n \in DOMAIN fs : Len(fs[n].data) > 0

\* a run went past a month without any figure, wrote nothing for it, and stored
\* another month
C9_Witness ==
    /\ pc = "done" /\ DOMAIN fs # {}
    /\ \E mo \in MonthNos :
          /\ remote[mo].ok /\ remote[mo].count = 0
          /\ RangeName(mo) \notin DOMAIN fs

(* C10: every record file written has the fields year, month, region, type and
   data, region being the country code of its directory and type 'all'. *)
C10_RecordShape ==
    \A n \in DOMAIN fs :
        /\ {"year", "month", "region", "type", "data"} \subseteq DOMAIN fs[n]
        /\ fs[n].region = country
        /\ fs[n].type = "all"

(* C5: with a valid or absent zone code, an error raised by one zone's parser
   does not prevent the parsers of the remaining zones from being invoked, and
   the process exits with code 0. *)
C5_ZoneIsolation ==
    (orch.pc = "exit" /\ (orch.target = "" \/ ZoneRegistered(orch.target))) =>
        /\ orch.exitCode = 0
        /\ \A z \in 1..Len(ZoneCodes) :
             (orch.target \in {"", ZoneCodes[z]}) =>
                \A j \in 1..Len(orch.parsers[z]) :
                    orch.parsers[z][j].exists => <<z, j>> \in orch.invoked

-----------------------------------------------------------------------------
(* JavaScript string operations used by the fuel normalizers *)

UpperChars == "ABCDEFGHIJKLMNOPQRSTUVWXYZ"
LowerChars == "abcdefghijklmnopqrstuvwxyz"

CharAt(s, k) == SubSeq(s, k, k)

\* \s of a regular expression, for the characters the labels here use
IsSpace(c) == c = " " \/ c = "\t"

LowerChar(c) ==
    IF \E k \in 1..Len(UpperChars) : CharAt(UpperChars, k) = c
    THEN CharAt(LowerChars, CHOOSE k \in 1..Len(UpperChars) : CharAt(UpperChars, k) = c)
    ELSE c

RECURSIVE ToLowerCase(_)
\* String.prototype.toLowerCase
ToLowerCase(s) ==
    IF Len(s) = 0 THEN ""
    ELSE LowerChar(CharAt(s, 1)) \o ToLowerCase(SubSeq(s, 2, Len(s)))

RECURSIVE TrimStart(_)
TrimStart(s) ==
    IF Len(s) > 0 /\ IsSpace(CharAt(s, 1)) THEN TrimStart(SubSeq(s, 2, Len(s))) ELSE s

RECURSIVE TrimEnd(_)
TrimEnd(s) ==
    IF Len(s) > 0 /\ IsSpace(CharAt(s, Len(s))) THEN TrimEnd(SubSeq(s, 1, Len(s) - 1)) ELSE s

\* String.prototype.trim
Trim(s) == TrimEnd(TrimStart(s))

RECURSIVE CollapseSpaces(_)
\* .replace(/\s+/g, ' ')
CollapseSpaces(s) ==
    IF Len(s) = 0 THEN ""
    ELSE IF IsSpace(CharAt(s, 1))
         THEN " " \o CollapseSpaces(TrimStart(s))
         ELSE CharAt(s, 1) \o CollapseSpaces(SubSeq(s, 2, Len(s)))

\* String.prototype.includes
Includes(s, a) == \E k \in 0..(Len(s) - Len(a)) : SubSeq(s, k + 1, k + Len(a)) = a

\* a label argument: null / undefined (absent), or a string
AbsentLabel == [absent |-> TRUE, text |-> ""]
Label(s)    == [absent |-> FALSE, text |-> s]

\* !label
Falsy(label) == label.absent \/ label.text = ""

-----------------------------------------------------------------------------
(* The fuel normalizers of the country parsers *)

\* FRENCH_FUEL_MAP, in Object.entries order
FRENCH_FUEL_MAP ==
    << [code |-> "DIESEL",   aliases |-> <<"Gazole (thermique)", "Diesel">>],
       [code |-> "GASOLINE", aliases |-> <<"Essence (thermique)", "Essence">>],
       [code |-> "HYBRID",   aliases |-> <<"hybride gazole non rechargeable",
                                           "hybride essence non rechargeable",
                                           "gazole (y compris hybrides non rechargeables)",
                                           "essence (y compris hybrides non rechargeables)">>],
       [code |-> "PHEV",     aliases |-> <<"hybride rechargeable">>],
       [code |-> "BEV",      aliases |-> <<"Electrique", "Electric", "BEV">>],
       [code |-> "OTHER",    aliases |-> <<"Gaz & ND", "LPG", "CNG">>] >>

\* SWEDISH_FUEL_MAP
SWEDISH_FUEL_MAP ==
    << [code |-> "DIESEL",   aliases |-> <<"diesel">>],
       [code |-> "GASOLINE", aliases |-> <<"petrol">>],
       [code |-> "HYBRID",   aliases |-> <<"electric hybrid">>],
       [code |-> "PHEV",     aliases |-> <<"plug-in hybrid">>],
       [code |-> "BEV",      aliases |-> <<"electricity">>],
       [code |-> "OTHER",    aliases |-> <<"gas/gas flex", "ethanol/ethanol flexifuel",
                                           "other fuels">>] >>

\* CHINESE_FUEL_MAP; the Chinese aliases are written in pinyin, one word per
\* character group, so that one alias contains another exactly where the
\* original does
CHINESE_FUEL_MAP ==
    << [code |-> "BEV",      aliases |-> <<"chundiandong", "chundiandong-qiche", "BEV">>],
       [code |-> "PHEV",     aliases |-> <<"chadianshi-hunhedongli",
                                           "chadianshi-hunhedongli-qiche", "PHEV">>],
       [code |-> "FCEV",     aliases |-> <<"ranliaodianchi", "ranliaodianchi-qiche", "FCEV">>],
       [code |-> "HYBRID",   aliases |-> <<"hunhedongli", "HEV">>],
       [code |-> "GASOLINE", aliases |-> <<"qiyou", "qiyou-che">>],
       [code |-> "DIESEL",   aliases |-> <<"chaiyou", "chaiyou-che">>] >>

\* the mapping object of mapGermanFuelType, in insertion order ("ue" for u-umlaut)
GERMAN_MAPPING ==
    << [code |-> "BEV",           aliases |-> <<"elektro">>],
       [code |-> "BEV",           aliases |-> <<"elektrisch">>],
       [code |-> "GASOLINE",      aliases |-> <<"benzin">>],
       [code |-> "DIESEL",        aliases |-> <<"diesel">>],
       [code |-> "HYBRID",        aliases |-> <<"hybrid">>],
       [code |-> "PHEV",          aliases |-> <<"plug-in-hybrid">>],
       [code |-> "PHEV",          aliases |-> <<"plug-in hybrid">>],
       [code |-> "LPG_CNG_OTHER", aliases |-> <<"erdgas">>],
       [code |-> "LPG_CNG_OTHER", aliases |-> <<"cng">>],
       [code |-> "LPG_CNG_OTHER", aliases |-> <<"fluessiggas">>],
       [code |-> "LPG_CNG_OTHER", aliases |-> <<"lpg">>],
       [code |-> "LPG_CNG_OTHER", aliases |-> <<"wasserstoff">>],
       [code |-> "OTHER",         aliases |-> <<"sonstige">>] >>

\* the mapping object of mapAceaFuelType, in insertion order
ACEA_MAPPING ==
    << [code |-> "BEV",           aliases |-> <<"electric">>],
       [code |-> "BEV",           aliases |-> <<"bev">>],
       [code |-> "BEV",           aliases |-> <<"battery electric">>],
       [code |-> "PHEV",          aliases |-> <<"plug-in hybrid">>],
       [code |-> "PHEV",          aliases |-> <<"phev">>],
       [code |-> "HYBRID",        aliases |-> <<"hybrid electric">>],
       [code |-> "HYBRID",        aliases |-> <<"hev">>],
       [code |-> "HYBRID",        aliases |-> <<"hybrid">>],
       [code |-> "DIESEL",        aliases |-> <<"diesel">>],
       [code |-> "GASOLINE",      aliases |-> <<"petrol">>],
       [code |-> "GASOLINE",      aliases |-> <<"gasoline">>],
       [code |-> "LPG_CNG_OTHER", aliases |-> <<"lpg">>],
       [code |-> "LPG_CNG_OTHER", aliases |-> <<"cng">>],
       [code |-> "OTHER",         aliases |-> <<"other">>] >>

\* the mapping object of NL mapFuelType
NL_MAPPING ==
    << [code |-> "BEV",           aliases |-> <<"Elektriciteit">>],
       [code |-> "GASOLINE",      aliases |-> <<"Benzine">>],
       [code |-> "DIESEL",        aliases |-> <<"Diesel">>],
       [code |-> "LPG_CNG_OTHER", aliases |-> <<"LPG", "CNG", "LNG", "Waterstof", "Alcohol">>] >>

\* the mapping object of NO mapFuelType
NO_MAPPING ==
    << [code |-> "BEV",    aliases |-> <<"19">>],
       [code |-> "FOSSIL", aliases |-> <<"20">>],
       [code |-> "HYBRID", aliases |-> <<"21">>],
       [code |-> "OTHER",  aliases |-> <<"6">>] >>

\* the (alias, code) pairs of a table in the order the nested loops visit them
TableEntries(table) ==
    LET F[k \in 0..Len(table)] ==
            IF k = 0 THEN <<>>
            ELSE F[k - 1] \o [j \in 1..Len(table[k].aliases) |->
                                 [alias |-> table[k].aliases[j], code |-> table[k].code]]
    IN  F[Len(table)]

RECURSIVE FirstIncluded(_, _, _, _)
\* for (...) if (clean.includes(alias)) return code; then the default
FirstIncluded(entries, k, clean, default) ==
    IF k > Len(entries) THEN default
    ELSE IF Includes(clean, entries[k].alias) THEN entries[k].code
    ELSE FirstIncluded(entries, k + 1, clean, default)

RECURSIVE FirstEqualLower(_, _, _, _)
\* for (...) if (clean === alias.toLowerCase()) return code; then the default
FirstEqualLower(entries, k, clean, default) ==
    IF k > Len(entries) THEN default
    ELSE IF clean = ToLowerCase(entries[k].alias) THEN entries[k].code
    ELSE FirstEqualLower(entries, k + 1, clean, default)

RECURSIVE FrenchScan(_, _, _, _, _)
\* the two nested loops of normalizeFrenchFuel; best = "" stands for null
FrenchScan(entries, k, clean, best, bestLen) ==
    IF k > Len(entries) THEN (IF best = "" THEN "OTHER" ELSE best)
    ELSE LET aliasClean == CollapseSpaces(ToLowerCase(entries[k].alias))
         IN  IF clean = aliasClean THEN entries[k].code
             ELSE IF Includes(clean, aliasClean) /\ Len(aliasClean) > bestLen
                  THEN FrenchScan(entries, k + 1, clean, entries[k].code, Len(aliasClean))
                  ELSE FrenchScan(entries, k + 1, clean, best, bestLen)

\* variant: the first alias contained in the label wins
NormalizeFrenchFirstMatch(table, label) ==
    IF Falsy(label) THEN "UNKNOWN"
    ELSE FirstIncluded([k \in 1..Len(TableEntries(table)) |->
                           [alias |-> CollapseSpaces(ToLowerCase(TableEntries(table)[k].alias)),
                            code  |-> TableEntries(table)[k].code]],
                       1, CollapseSpaces(ToLowerCase(Trim(label.text))), "OTHER")

\* normalizeFrenchFuel(label); the table is FRENCH_FUEL_MAP in the source and a
\* parameter here, so that other registrations can be normalized against
NormalizeFrenchFuel(table, label) ==
    IF Falsy(label) THEN "UNKNOWN"
    ELSE FrenchScan(TableEntries(table), 1,
                    CollapseSpaces(ToLowerCase(Trim(label.text))), "", 0)

\* normalizeSwedishFuel(label)
NormalizeSwedishFuel(label) ==
    IF Falsy(label) THEN "UNKNOWN"
    ELSE FirstEqualLower(TableEntries(SWEDISH_FUEL_MAP), 1, ToLowerCase(Trim(label.text)), "OTHER")

\* normalizeChineseFuel(label)
NormalizeChineseFuel(label) ==
    IF Falsy(label) THEN "UNKNOWN"
    ELSE FirstIncluded(TableEntries(CHINESE_FUEL_MAP), 1, Trim(label.text), "OTHER")

\* mapGermanFuelType(fuelName)
MapGermanFuelType(fuelName) ==
    IF Falsy(fuelName) THEN "UNKNOWN"
    ELSE FirstIncluded(TableEntries(GERMAN_MAPPING), 1, Trim(ToLowerCase(fuelName.text)), "UNKNOWN")

\* mapAceaFuelType(fuelName)
MapAceaFuelType(fuelName) ==
    IF Falsy(fuelName) THEN "UNKNOWN"
    ELSE FirstIncluded(TableEntries(ACEA_MAPPING), 1, Trim(ToLowerCase(fuelName.text)), "UNKNOWN")

\* a property lookup mapping[key] || default; an absent key is the key "undefined"
Lookup(table, key, default) ==
    LET es  == TableEntries(table)
        txt == IF key.absent THEN "undefined" ELSE key.text
    IN  IF \E k \in 1..Len(es) : es[k].alias = txt
        THEN es[CHOOSE k \in 1..Len(es) : es[k].alias = txt].code
        ELSE default

\* NL mapFuelType(brandstof)
NLMapFuelType(brandstof) == Lookup(NL_MAPPING, brandstof, "OTHER")

-----------------------------------------------------------------------------
(* SpecFuel: the normalizers applied to labels drawn from their tables *)

\* registrations of the spec's example, in both orders, and two aliases of equal
\* length, in both orders
HybrideFirst == << [code |-> "HYBRID", aliases |-> <<"hybride">>],
                   [code |-> "PHEV",   aliases |-> <<"hybride rechargeable">>] >>
HybrideLast  == << [code |-> "PHEV",   aliases |-> <<"hybride rechargeable">>],
                   [code |-> "HYBRID", aliases |-> <<"hybride">>] >>
TieDiesel    == << [code |-> "DIESEL", aliases |-> <<"gazole">>],
                   [code |-> "BEV",    aliases |-> <<"electr">>] >>
TieElectric  == << [code |-> "BEV",    aliases |-> <<"electr">>],
                   [code |-> "DIESEL", aliases |-> <<"gazole">>] >>

FrenchTables == {FRENCH_FUEL_MAP, HybrideFirst, HybrideLast, TieDiesel, TieElectric}

\* the table each normalizer reads
FuelTable(fn) ==
    CASE fn = "FR"   -> FRENCH_FUEL_MAP
      [] fn = "SE"   -> SWEDISH_FUEL_MAP
      [] fn = "CN"   -> CHINESE_FUEL_MAP
      [] fn = "DE"   -> GERMAN_MAPPING
      [] fn = "ACEA" -> ACEA_MAPPING
      [] fn = "NL"   -> NL_MAPPING
      [] fn = "NO"   -> NO_MAPPING

Normalizers == {"FR", "SE", "CN", "DE", "ACEA", "NL", "NO"}

Aliases(table) == {TableEntries(table)[k].alias : k \in 1..Len(TableEntries(table))}

\* labels that are no alias as registered: absent, empty, blank, other case and
\* spacing, an alias inside a longer label, and unregistered fuels
OtherLabels ==
    {AbsentLabel} \cup
    {Label(t) : t \in {"", "  ", "Ethanol E85", "Hydrogene", "99",
                       "Hybride Rechargeable", "HYBRIDE   RECHARGEABLE ",
                       "Voiture hybride rechargeable essence",
                       "Hybride essence non rechargeable E85",
                       "gazole electrique", "Electrique gazole",
                       "DIESEL", " Plug-In Hybrid ", "ELECTRICITY", "Diesel (Euro 6)"}}

FuelLabels(table) ==
    {Label(a) : a \in Aliases(table)} \cup {Label(" " \o a \o "  ") : a \in Aliases(table)}
        \cup OtherLabels

FuelCalls ==
    {[op |-> "normalize", fn |-> "FR", table |-> t, label |-> l]
        : t \in FrenchTables, l \in FuelLabels(FRENCH_FUEL_MAP)}
    \cup UNION {{[op |-> "normalize", fn |-> f, table |-> FuelTable(f), label |-> l]
                   : l \in FuelLabels(FuelTable(f))} : f \in Normalizers \ {"FR"}}

FuelInit ==
    /\ uIn \in FuelCalls
    /\ uOut = [done |-> FALSE]
    /\ NoEnv /\ NoRun /\ NoOrch

\* the call returns code
Returned(fn, code) ==
    /\ uIn.op = "normalize" /\ uIn.fn = fn /\ ~uOut.done
    /\ uOut' = [done |-> TRUE, code |-> code]
    /\ UNCHANGED <<uIn, envVars, runVars, orch>>

CallNormalizeFrench  == Returned("FR", NormalizeFrenchFuel(uIn.table, uIn.label))
CallNormalizeSwedish == Returned("SE", NormalizeSwedishFuel(uIn.label))
CallNormalizeChinese == Returned("CN", NormalizeChineseFuel(uIn.label))
CallMapGerman        == Returned("DE", MapGermanFuelType(uIn.label))
CallMapAcea          == Returned("ACEA", MapAceaFuelType(uIn.label))
CallMapNL            == Returned("NL", NLMapFuelType(uIn.label))
CallMapNO            ==
    Returned("NO", NOMapFuelType(IF uIn.label.absent THEN "undefined" ELSE uIn.label.text))

FuelNext ==
    \/ CallNormalizeFrench \/ CallNormalizeSwedish \/ CallNormalizeChinese
    \/ CallMapGerman \/ CallMapAcea \/ CallMapNL \/ CallMapNO

SpecFuel == FuelInit /\ [][FuelNext]_vars

\* the nine canonical fuel codes
CanonicalCodes == {"BEV", "PHEV", "HYBRID", "DIESEL", "GASOLINE", "LPG_CNG_OTHER",
                   "FOSSIL", "OTHER", "UNKNOWN"}

(* C11: the result of every country normalizer is one of the nine canonical
   fuel codes. *)
C11_CanonicalCode ==
    (uIn.op = "normalize" /\ uOut.done) => uOut.code \in CanonicalCodes

(* C13: every normalizer, given an alias registered in its table, returns the
   code the table declares for that alias. *)
C13_AliasTotality ==
    (uIn.op = "normalize" /\ uOut.done /\ ~uIn.label.absent) =>
        \A k \in 1..Len(TableEntries(uIn.table)) :
            TableEntries(uIn.table)[k].alias = uIn.label.text =>
                uOut.code = TableEntries(uIn.table)[k].code

\* the label matches a registered alias, in the way the normalizer compares
MatchesAlias(fn, table, label) ==
    /\ ~Falsy(label)
    /\ \E a \in Aliases(table) :
         CASE fn = "FR"            -> Includes(CollapseSpaces(ToLowerCase(Trim(label.text))),
                                               CollapseSpaces(ToLowerCase(a)))
           [] fn = "SE"            -> ToLowerCase(Trim(label.text)) = ToLowerCase(a)
           [] fn = "CN"            -> Includes(Trim(label.text), a)
           [] fn \in {"DE", "ACEA"} -> Includes(Trim(ToLowerCase(label.text)), a)
           [] fn \in {"NL", "NO"}  -> label.text = a

(* C14: for every normalizer, a label that matches no registered alias is
   mapped by emptiness alone: UNKNOWN when it is empty or absent, OTHER when it
   is not empty. *)
C14_DefaultCodes ==
    (uIn.op = "normalize" /\ uOut.done /\ ~MatchesAlias(uIn.fn, uIn.table, uIn.label)) =>
        uOut.code = IF Falsy(uIn.label) THEN "UNKNOWN" ELSE "OTHER"

(* C15: normalizeFrenchFuel, on the lowercased and whitespace-collapsed label:
   an alias equal to it gives the result whatever the order of the table;
   otherwise the result is the code of the longest alias the label contains,
   the alias registered first among those of that length. *)
C15_LongestMatch ==
    (uIn.op = "normalize" /\ uIn.fn = "FR" /\ uOut.done /\ ~Falsy(uIn.label)) =>
        LET es    == TableEntries(uIn.table)
            ac(k) == CollapseSpaces(ToLowerCase(es[k].alias))
            clean == CollapseSpaces(ToLowerCase(Trim(uIn.label.text)))
            exact == {k \in 1..Len(es) : ac(k) = clean}
            cont  == {k \in 1..Len(es) : Includes(clean, ac(k))}
            long  == {k \in cont : \A j \in cont : Len(ac(j)) <= Len(ac(k))}
        IN  IF exact # {} THEN \A k \in exact : uOut.code = es[k].code
            ELSE cont # {} =>
                   uOut.code = es[CHOOSE k \in long : \A j \in long : k <= j].code

\* the spec's example: 'hybride' registered before 'hybride rechargeable', and
\* 'Hybride Rechargeable' yields PHEV
C15_Witness ==
    /\ uIn.op = "normalize" /\ uIn.fn = "FR" /\ uOut.done
    /\ uIn.table = HybrideFirst
    /\ uIn.label = Label("Hybride Rechargeable")
    /\ uOut.code = "PHEV"

-----------------------------------------------------------------------------
(* scripts/parsers/FR.js: the extraction of the spreadsheet *)

IsDigit(c) == c \in {"0", "1", "2", "3", "4", "5", "6", "7", "8", "9"}

DigitValue(c) == CHOOSE d \in 0..9 : ToString(d) = c

RECURSIVE DigitsPrefix(_, _)
\* the value of the leading digits of s, acc being the value read so far
DigitsPrefix(s, acc) ==
    IF Len(s) > 0 /\ IsDigit(CharAt(s, 1))
    THEN DigitsPrefix(SubSeq(s, 2, Len(s)), acc * 10 + DigitValue(CharAt(s, 1)))
    ELSE acc

\* parseInt(s, 10) || 0: leading white space, an optional sign, then digits;
\* NaN (no digit) and 0 both give 0
ParseIntOrZero(s) ==
    LET t == TrimStart(s)
    IN  IF Len(t) > 0 /\ CharAt(t, 1) = "-" THEN 0 - DigitsPrefix(SubSeq(t, 2, Len(t)), 0)
        ELSE IF Len(t) > 0 /\ CharAt(t, 1) = "+" THEN DigitsPrefix(SubSeq(t, 2, Len(t)), 0)
        ELSE DigitsPrefix(t, 0)

AllDigits(s) == \A k \in 1..Len(s) : IsDigit(CharAt(s, k))

\* /^\d{4}_\d{2}$/.test(dateStr)
FRDatePattern(dateStr) ==
    /\ Len(dateStr) = 7
    /\ AllDigits(SubSeq(dateStr, 1, 4))
    /\ CharAt(dateStr, 5) = "_"
    /\ AllDigits(SubSeq(dateStr, 6, 7))

\* hasFuelRef: a cell of the row names gazole, essence or electrique
FRHasFuelRef(row) ==
    \E j \in 1..Len(row) :
        /\ row[j] # ""
        /\ \/ Includes(ToLowerCase(row[j]), "gazole")
           \/ Includes(ToLowerCase(row[j]), "essence")
           \/ Includes(ToLowerCase(row[j]), "electrique")

\* headerIndex: the first row with a fuel reference (0: none)
FRHeaderIndex(rows) ==
    IF \E k \in 1..Len(rows) : FRHasFuelRef(rows[k])
    THEN CHOOSE k \in 1..Len(rows) :
            FRHasFuelRef(rows[k]) /\ \A j \in 1..(k - 1) : ~FRHasFuelRef(rows[j])
    ELSE 0

\* colMapping: per column the fuel code of its header, "" when the column is
\* not mapped (the code is OTHER or UNKNOWN)
FRColMapping(header) ==
    [j \in 1..Len(header) |->
        LET fuelCode == NormalizeFrenchFuel(FRENCH_FUEL_MAP, Label(header[j]))
        IN  IF fuelCode # "OTHER" /\ fuelCode # "UNKNOWN" THEN fuelCode ELSE ""]

\* colDate: the first column when it is not a fuel column (0: none)
FRColDate(colMapping) == IF Len(colMapping) = 0 \/ colMapping[1] = "" THEN 1 ELSE 0

RECURSIVE FRAggregate(_, _, _, _)
\* aggregated: the positive values of the mapped columns added up per fuel
\* code, in the order the codes first appear
FRAggregate(row, colMapping, j, acc) ==
    IF j > Len(colMapping) THEN acc
    ELSE LET val  == IF j <= Len(row) THEN ParseIntOrZero(row[j]) ELSE 0
             code == colMapping[j]
         IN  IF code = "" \/ val <= 0 THEN FRAggregate(row, colMapping, j + 1, acc)
             ELSE IF \E k \in 1..Len(acc) : acc[k].energie = code
             THEN FRAggregate(row, colMapping, j + 1,
                     [k \in 1..Len(acc) |->
                         IF acc[k].energie = code
                         THEN [acc[k] EXCEPT !.total = acc[k].total + val] ELSE acc[k]])
             ELSE FRAggregate(row, colMapping, j + 1,
                     Append(acc, Entry("Toutes marques", "Tous modeles", val, code)))

\* the body of the row loop for one row of the sheet
FRSheetRow(files, row, colDate, colMapping) ==
    IF colDate = 0 \/ Len(row) < colDate \/ row[colDate] = "" THEN files
    ELSE LET dateStr == Trim(row[colDate])
         IN  IF ~FRDatePattern(dateStr) THEN files
             ELSE LET mStr  == SubSeq(dateStr, 6, 7)
                      year  == ParseIntOrZero(SubSeq(dateStr, 1, 4))
                      month == ParseIntOrZero(mStr)
                      data  == FRAggregate(row, colMapping, 1, <<>>)
                      name  == ToString(year) \o "-" \o mStr \o ".json"
                  IN  IF Len(data) > 0 /\ ~ExistsSync(files, name)
                      THEN WriteFileSync(files, name,
                              [year |-> year, month |-> month, data |-> data,
                               region |-> "FR", type |-> "all"])
                      ELSE files

RECURSIVE FRSheetRows(_, _, _, _, _)
FRSheetRows(files, rows, k, colDate, colMapping) ==
    IF k > Len(rows) THEN files
    ELSE FRSheetRows(FRSheetRow(files, rows[k], colDate, colMapping), rows, k + 1,
                     colDate, colMapping)

\* fetchAndProcessExcel from the rows of the first sheet on: the files written
FRExtract(rows) ==
    LET h == FRHeaderIndex(rows)
    IN  IF h = 0 THEN <<>>
        ELSE FRSheetRows(<<>>, rows, h + 1, FRColDate(FRColMapping(rows[h])),
                         FRColMapping(rows[h]))

-----------------------------------------------------------------------------
(* SpecSheet: the French extraction applied to small sheets *)

SheetHeaders ==
    { <<"Period", "Gazole", "Essence", "Electrique">>,
      <<"Periode", "Gazole (thermique)", "Essence (thermique)", "Electrique">>,
      <<"Date", "Diesel", "Essence", "Hybride rechargeable">> }

\* the first cell of a data row: well-formed periods, periods whose month is no
\* calendar month, other separators, a label, an empty cell
SheetPeriods == {"2023_05", " 2024_01 ", "2023_13", "2023_00", "2023-05", "Total", ""}

SheetValues == { <<"100", "50", "25">>, <<"0", "", "n/a">>, <<"12 ", "7.5", "3">> }

SheetDataRows == {<<p>> \o v : p \in SheetPeriods, v \in SheetValues}

\* a header row followed by one or two data rows
Sheets ==
    {<<h, r>> : h \in SheetHeaders, r \in SheetDataRows}
    \cup {<<h, r1, r2>> : h \in SheetHeaders, r1 \in SheetDataRows, r2 \in SheetDataRows}

SheetInit ==
    /\ uIn \in {[op |-> "sheet", rows |-> rs] : rs \in Sheets}
    /\ uOut = [done |-> FALSE]
    /\ NoEnv /\ NoRun /\ NoOrch

CallFRExtract ==
    /\ uIn.op = "sheet" /\ ~uOut.done
    /\ uOut' = [done |-> TRUE, files |-> FRExtract(uIn.rows)]
    /\ UNCHANGED <<uIn, envVars, runVars, orch>>

SheetNext == CallFRExtract

SpecSheet == SheetInit /\ [][SheetNext]_vars

(* C12: every record written has month in 1..12 and is stored under the file
   key 'YYYY-MM' of its own (year, month), whatever period the adapter
   accepts. *)
C12_ValidMonthKey ==
    (uIn.op = "sheet" /\ uOut.done) =>
        \A n \in DOMAIN uOut.files :
            /\ uOut.files[n].month \in 1..12
            /\ n = MonthCode(uOut.files[n].year, uOut.files[n].month) \o ".json"

(* C16: from the header row ['Period','Gazole','Essence','Electrique'] and the
   data row ['2023_05','100','50','25'] the French extractor writes a record
   for 2023-05 whose entries are exactly DIESEL:100, GASOLINE:50, BEV:25. *)
C16_SheetRoundTrip ==
    (uIn.op = "sheet" /\ uOut.done
        /\ uIn.rows = << <<"Period", "Gazole", "Essence", "Electrique">>,
                         <<"2023_05", "100", "50", "25">> >>) =>
        /\ DOMAIN uOut.files = {"2023-05.json"}
        /\ uOut.files["2023-05.json"].year = 2023
        /\ uOut.files["2023-05.json"].month = 5
        /\ LET data == uOut.files["2023-05.json"].data
           IN  {<<data[k].energie, data[k].total>> : k \in 1..Len(data)}
                 = {<<"DIESEL", 100>>, <<"GASOLINE", 50>>, <<"BEV", 25>>}

-----------------------------------------------------------------------------
(* The ACEA adapter: parsePdfData from the country row on *)

\* countryNames[countryCode] || [countryCode], for the countries used here
CountryVariations(countryCode) ==
    CASE countryCode = "FR" -> <<"France", "FRANCE">>
      [] countryCode = "ES" -> <<"Spain", "SPAIN", "Espana">>
      [] OTHER              -> <<countryCode>>

RECURSIVE RemoveCommas(_)
\* text.replace(/,/g, '')
RemoveCommas(s) ==
    IF Len(s) = 0 THEN ""
    ELSE (IF CharAt(s, 1) = "," THEN "" ELSE CharAt(s, 1)) \o RemoveCommas(SubSeq(s, 2, Len(s)))

\* the dash characters of the placeholder test (en dash, em dash, minus sign
\* and their like), for which "~" stands
IsDashes(text) == Len(text) > 0 /\ \A k \in 1..Len(text) : CharAt(text, k) = "~"

\* num = parseInt(text.replace(/,/g, ''), 10) is a number and num >= 0; the
\* texts that reach the test have no sign
ParsesAsCount(text) ==
    LET t == TrimStart(RemoveCommas(text))
    IN  Len(t) > 0 /\ IsDigit(CharAt(t, 1))

\* the loop that fills numbers from the items of the country row
PdfNumbers(countryRow, countryCode) ==
    LET names   == CountryVariations(countryCode)
        kept(t) == /\ ~\E k \in 1..Len(names) : Includes(t, names[k])
                   /\ ~(Includes(t, "%") \/ Includes(t, "+") \/ Includes(t, "-"))
                   /\ ~IsDashes(t)
                   /\ ParsesAsCount(t)
        texts   == SelectSeq(countryRow, kept)
    IN  [k \in 1..Len(texts) |-> DigitsPrefix(TrimStart(RemoveCommas(texts[k])), 0)]

\* numbers[k] || 0, k counted from 0
NumberAt(numbers, k) == IF k + 1 <= Len(numbers) THEN numbers[k + 1] ELSE 0

\* the six entries in the order they are pushed
PdfResult(bev, phev, hybrid, other, gasoline, diesel) ==
    << [energie |-> "BEV",      total |-> bev],
       [energie |-> "PHEV",     total |-> phev],
       [energie |-> "HYBRID",   total |-> hybrid],
       [energie |-> "DIESEL",   total |-> diesel],
       [energie |-> "GASOLINE", total |-> gasoline],
       [energie |-> "OTHER",    total |-> other] >>

\* variant: the normal layout whatever the number of values
PdfLayoutNormal(numbers) ==
    PdfResult(NumberAt(numbers, 0), NumberAt(numbers, 2), NumberAt(numbers, 4),
              NumberAt(numbers, 6), NumberAt(numbers, 8), NumberAt(numbers, 10))

\* the assignment of the values to the fuel types: hasHybridData or not
PdfLayout(numbers) ==
    IF Len(numbers) >= 14
    THEN PdfResult(NumberAt(numbers, 0), NumberAt(numbers, 2), NumberAt(numbers, 4),
                   NumberAt(numbers, 6), NumberAt(numbers, 8), NumberAt(numbers, 10))
    ELSE PdfResult(NumberAt(numbers, 0), NumberAt(numbers, 2), 0,
                   NumberAt(numbers, 4), NumberAt(numbers, 6), NumberAt(numbers, 8))

\* parsePdfData once the country row is found: the result, or the error thrown
\* when fewer than six values were extracted
ParsePdfRow(countryRow, countryCode) ==
    LET numbers == PdfNumbers(countryRow, countryCode)
    IN  IF Len(numbers) < 6
        THEN [thrown |-> TRUE,  numbers |-> numbers, result |-> <<>>]
        ELSE [thrown |-> FALSE, numbers |-> numbers, result |-> PdfLayout(numbers)]

-----------------------------------------------------------------------------
(* SpecPdf: parsePdfData applied to country rows of the press-release table *)

\* a text item of the row with the count it displays (-1: it displays none)
CountItem(n, comma) ==
    [text |-> IF comma /\ n >= 1000
              THEN ToString(n \div 1000) \o "," \o PadStart(ToString(n % 1000), 3, "0")
              ELSE ToString(n),
     num  |-> n]
TextItem(t) == [text |-> t, num |-> -1]

\* the (current, prior) pair of column k of the table, a change in percent after
\* it when the row shows one; the hybrid pair is column 3
PdfPair(c, k) ==
    (IF k = 3 /\ c.hybrid = "dashes"
     THEN <<TextItem("~"), TextItem("~")>>
     ELSE <<CountItem(c.base * k + 5, c.comma), CountItem(c.base * k + 3, c.comma)>>)
    \o (IF c.pct THEN <<TextItem(IF k % 2 = 0 THEN "+5.2" ELSE "-12.4%")>> ELSE <<>>)

\* the items of the country row, left to right
PdfRowItems(c) ==
    LET F[k \in 0..c.pairs] == IF k = 0 THEN <<TextItem(c.name)>> ELSE F[k - 1] \o PdfPair(c, k)
    IN  F[c.pairs]

PdfRows ==
    {[countryCode |-> cc, name |-> CountryVariations(cc)[v], hybrid |-> h, pct |-> p,
      pairs |-> n, base |-> b, comma |-> cm]
        : cc \in {"FR", "ES"}, v \in 1..2, h \in {"numbers", "dashes"}, p \in BOOLEAN,
          n \in 2..7, b \in {37, 1000}, cm \in BOOLEAN}

PdfInit ==
    /\ uIn \in {[op |-> "pdf", row |-> c, items |-> PdfRowItems(c)] : c \in PdfRows}
    /\ uOut = [done |-> FALSE]
    /\ NoEnv /\ NoRun /\ NoOrch

CallParsePdfData ==
    /\ uIn.op = "pdf" /\ ~uOut.done
    /\ LET r == ParsePdfRow([k \in 1..Len(uIn.items) |-> uIn.items[k].text],
                            uIn.row.countryCode)
       IN  uOut' = [done |-> TRUE, thrown |-> r.thrown, result |-> r.result]
    /\ UNCHANGED <<uIn, envVars, runVars, orch>>

PdfNext == CallParsePdfData

SpecPdf == PdfInit /\ [][PdfNext]_vars

\* the counts the row displays, left to right
DisplayedCounts(items) ==
    LET shown == SelectSeq(items, LAMBDA it : it.num >= 0)
    IN  [k \in 1..Len(shown) |-> shown[k].num]

\* the total the result gives for a fuel code
PdfTotal(result, energie) ==
    result[CHOOSE k \in 1..Len(result) : result[k].energie = energie].total

(* C17: when the hybrid pair is made of dash placeholders and the row has 12
   numeric tokens, parsePdfData gives BEV = token 0, PHEV = token 2,
   HYBRID = 0, OTHER = token 4, GASOLINE = token 6, DIESEL = token 8 of the
   remaining tokens; with 14 or more tokens the values are tokens 0, 2, 4, 6,
   8, 10 for BEV, PHEV, HYBRID, OTHER, GASOLINE, DIESEL. *)
C17_DegradedLayout ==
    (uIn.op = "pdf" /\ uOut.done) =>
        LET n == DisplayedCounts(uIn.items)
            r == uOut.result
        IN  /\ (uIn.row.hybrid = "dashes" /\ Len(n) = 12) =>
                 /\ ~uOut.thrown
                 /\ PdfTotal(r, "BEV") = n[1]      /\ PdfTotal(r, "PHEV") = n[3]
                 /\ PdfTotal(r, "HYBRID") = 0      /\ PdfTotal(r, "OTHER") = n[5]
                 /\ PdfTotal(r, "GASOLINE") = n[7] /\ PdfTotal(r, "DIESEL") = n[9]
            /\ Len(n) >= 14 =>
                 /\ ~uOut.thrown
                 /\ PdfTotal(r, "BEV") = n[1]      /\ PdfTotal(r, "PHEV") = n[3]
                 /\ PdfTotal(r, "HYBRID") = n[5]   /\ PdfTotal(r, "OTHER") = n[7]
                 /\ PdfTotal(r, "GASOLINE") = n[9] /\ PdfTotal(r, "DIESEL") = n[11]

\* a full row whose hybrid pair is dashes: petrol and diesel keep their own
\* columns (5 and 6 of the table) and HYBRID is 0
C17_Witness ==
    /\ uIn.op = "pdf" /\ uOut.done /\ ~uOut.thrown
    /\ uIn.row.hybrid = "dashes" /\ uIn.row.pairs = 7 /\ uIn.row.pct
    /\ PdfTotal(uOut.result, "HYBRID") = 0
    /\ PdfTotal(uOut.result, "GASOLINE") = uIn.row.base * 5 + 5
    /\ PdfTotal(uOut.result, "DIESEL") = uIn.row.base * 6 + 5

-----------------------------------------------------------------------------
(* The NO adapter: parseJsonStat *)

\* Object.entries(index).sort((a, b) => a[1] - b[1]).map(([code]) => code), for
\* an index that maps its codes onto 0..n-1
CodesInOrder(index) ==
    [k \in 1..Cardinality(DOMAIN index) |-> CHOOSE c \in DOMAIN index : index[c] = k - 1]

\* fuelTypes[iFuel], months[iTime]: undefined past the end, which as a property
\* key is the string 'undefined'
CodeAt(codes, k) == IF k + 1 <= Len(codes) THEN codes[k + 1] ELSE "undefined"

\* value[valueIndex] || 0
ValueAt(value, valueIndex) == IF valueIndex + 1 <= Len(value) THEN value[valueIndex + 1] ELSE 0

\* results[monthCode][fuelCode] = val, the objects being created on first use
SetResult(results, monthCode, fuelCode, val) ==
    LET old == IF monthCode \in DOMAIN results THEN results[monthCode] ELSE <<>>
        new == [f \in (DOMAIN old) \cup {fuelCode} |-> IF f = fuelCode THEN val ELSE old[f]]
    IN  [m \in (DOMAIN results) \cup {monthCode} |-> IF m = monthCode THEN new ELSE results[m]]

RECURSIVE JsonStatLoop(_, _, _, _, _, _)
\* the four nested loops: valueIndex runs over the flat array, iTime fastest,
\* then iContents, iFuel and iTypeReg
JsonStatLoop(results, valueIndex, value, size, fuelTypes, months) ==
    IF valueIndex >= size[1] * size[2] * size[3] * size[4] THEN results
    ELSE LET iTime == valueIndex % size[4]
             iFuel == (valueIndex \div (size[4] * size[3])) % size[2]
         IN  JsonStatLoop(SetResult(results, CodeAt(months, iTime), CodeAt(fuelTypes, iFuel),
                                    ValueAt(value, valueIndex)),
                          valueIndex + 1, value, size, fuelTypes, months)

\* variant: the flat array read with the fuel index running fastest
ParseJsonStatFuelFastest(response) ==
    LET fuelTypes == CodesInOrder(response.fuelIndex)
        months    == CodesInOrder(response.tidIndex)
    IN  [m \in DOMAIN response.tidIndex |->
            [f \in DOMAIN response.fuelIndex |->
                ValueAt(response.value,
                        response.tidIndex[m] * Len(fuelTypes) + response.fuelIndex[f])]]

\* parseJsonStat(response); fuelIndex is dimension.DrivstoffType.category.index
\* and tidIndex is dimension.Tid.category.index
ParseJsonStat(response) ==
    JsonStatLoop(<<>>, 0, response.value, response.size,
                 CodesInOrder(response.fuelIndex), CodesInOrder(response.tidIndex))

-----------------------------------------------------------------------------
(* SpecJsonStat: parseJsonStat applied to small responses *)

JsonFuelCodeSets == {{"19", "20"}, {"19", "20", "21"}}
JsonPeriodSets   == {{"2024M01"}, {"2024M01", "2024M02"}, {"2024M01", "2024M02", "2024M03"}}

\* the indexes of a dimension: every one-to-one numbering of its codes from 0
Indexes(codes) ==
    {ix \in [codes -> 0..(Cardinality(codes) - 1)] :
        \A c1, c2 \in codes : ix[c1] = ix[c2] => c1 = c2}

\* the flat array: distinct values, one of them 0 when zeroAt points at it, the
\* last one left out when short
JsonValues(n, first, zeroAt, short) ==
    [k \in 1..(IF short THEN n - 1 ELSE n) |-> IF k = zeroAt THEN 0 ELSE first + 10 * k]

JsonResponses ==
    {[fuelIndex |-> fi, tidIndex |-> ti,
      size  |-> <<1, Cardinality(DOMAIN fi), 1, Cardinality(DOMAIN ti)>>,
      value |-> JsonValues(Cardinality(DOMAIN fi) * Cardinality(DOMAIN ti), first, z, sh)]
        : fi \in UNION {Indexes(c) : c \in JsonFuelCodeSets},
          ti \in UNION {Indexes(c) : c \in JsonPeriodSets},
          first \in {1, 7}, z \in {0, 2}, sh \in BOOLEAN}

JsonStatInit ==
    /\ uIn \in {[op |-> "jsonstat", response |-> r] : r \in JsonResponses}
    /\ uOut = [done |-> FALSE]
    /\ NoEnv /\ NoRun /\ NoOrch

CallParseJsonStat ==
    /\ uIn.op = "jsonstat" /\ ~uOut.done
    /\ uOut' = [done |-> TRUE, results |-> ParseJsonStat(uIn.response)]
    /\ UNCHANGED <<uIn, envVars, runVars, orch>>

JsonStatNext == CallParseJsonStat

SpecJsonStat == JsonStatInit /\ [][JsonStatNext]_vars

(* C18: for a response of size [1, F, 1, T], parseJsonStat maps every period p
   (index t in the Tid ordering) and fuel code f (index i in the DrivstoffType
   ordering) to value[i * T + t], the row-major position. *)
C18_RowMajor ==
    (uIn.op = "jsonstat" /\ uOut.done) =>
        LET r == uIn.response
            T == r.size[4]
        IN  /\ DOMAIN uOut.results = DOMAIN r.tidIndex
            /\ \A p \in DOMAIN r.tidIndex :
                 /\ DOMAIN uOut.results[p] = DOMAIN r.fuelIndex
                 /\ \A f \in DOMAIN r.fuelIndex :
                      (r.fuelIndex[f] * T + r.tidIndex[p] + 1 <= Len(r.value)) =>
                          uOut.results[p][f] = r.value[r.fuelIndex[f] * T + r.tidIndex[p] + 1]

\* the spec's example: size [1, 2, 1, 3] and six values; the second fuel in the
\* last period is the sixth value
C18_Witness ==
    /\ uIn.op = "jsonstat" /\ uOut.done
    /\ uIn.response.size = <<1, 2, 1, 3>> /\ Len(uIn.response.value) = 6
    /\ \E p \in DOMAIN uIn.response.tidIndex, f \in DOMAIN uIn.response.fuelIndex :
         /\ uIn.response.tidIndex[p] = 2 /\ uIn.response.fuelIndex[f] = 1
         /\ uOut.results[p][f] = uIn.response.value[6]
         /\ uOut.results[p][f] > 0

-----------------------------------------------------------------------------
(* The DE adapter: parseKbaExcel from the header and total rows on *)

RECURSIVE KeepNumeric(_)
\* String(value).replace(/[^0-9.-]/g, '')
KeepNumeric(s) ==
    IF Len(s) = 0 THEN ""
    ELSE (IF IsDigit(CharAt(s, 1)) \/ CharAt(s, 1) = "." \/ CharAt(s, 1) = "-"
          THEN CharAt(s, 1) ELSE "")
         \o KeepNumeric(SubSeq(s, 2, Len(s)))

\* safeNumber(value): Number() of the kept characters, 0 when that is not a
\* finite number; Number('') is 0.  The cells here carry no decimal point.
SafeNumber(value) ==
    LET t == KeepNumeric(value)
    IN  IF Len(t) > 0 /\ AllDigits(t) THEN DigitsPrefix(t, 0)
        ELSE IF Len(t) > 1 /\ CharAt(t, 1) = "-" /\ AllDigits(SubSeq(t, 2, Len(t)))
             THEN 0 - DigitsPrefix(SubSeq(t, 2, Len(t)), 0)
        ELSE 0

\* columnIndex.X !== undefined, columns being the columns the header row names
HasColumn(columns, x) == x \in DOMAIN columns

\* the value of column x of the total row when the column exists
ColumnValue(columns, x) == SafeNumber(columns[x])

\* if (columnIndex.X !== undefined) { v = safeNumber(...); if (v > 0) fuelData.X = v }
KbaBucket(columns, x) ==
    IF HasColumn(columns, x) /\ ColumnValue(columns, x) > 0
    THEN <<[energie |-> x, total |-> ColumnValue(columns, x)]>>
    ELSE <<>>

\* fuelData.X || 0
FuelOrZero(fuelData, x) ==
    IF \E k \in 1..Len(fuelData) : fuelData[k].energie = x
    THEN fuelData[CHOOSE k \in 1..Len(fuelData) : fuelData[k].energie = x].total
    ELSE 0

\* variant: the residual is stored whatever its sign
KbaResidualAlways(gasoline) == <<[energie |-> "GASOLINE", total |-> gasoline]>>

\* if (gasoline > 0) fuelData.GASOLINE = gasoline
KbaResidual(gasoline) ==
    IF gasoline > 0 THEN <<[energie |-> "GASOLINE", total |-> gasoline]>> ELSE <<>>

\* gasoline = Math.round(total - diesel - allHybrids - bev), on whole numbers
KbaGasoline(columns, fuelData) ==
    LET total      == IF HasColumn(columns, "TOTAL") THEN ColumnValue(columns, "TOTAL") ELSE 0
        bev        == FuelOrZero(fuelData, "BEV")
        diesel     == FuelOrZero(fuelData, "DIESEL")
        allHybrids == IF HasColumn(columns, "ALL_HYBRIDS")
                      THEN ColumnValue(columns, "ALL_HYBRIDS")
                      ELSE bev + diesel + FuelOrZero(fuelData, "PHEV")
                               + FuelOrZero(fuelData, "HYBRID")
    IN  total - diesel - allHybrids - bev

\* parseKbaExcel once the header row and the total row are found: fuelData in
\* insertion order
ParseKbaTotals(columns) ==
    LET fuelData == KbaBucket(columns, "BEV") \o KbaBucket(columns, "DIESEL")
                       \o KbaBucket(columns, "PHEV") \o KbaBucket(columns, "HYBRID")
    IN  fuelData \o KbaResidual(KbaGasoline(columns, fuelData))

-----------------------------------------------------------------------------
(* SpecKba: parseKbaExcel applied to total rows *)

KbaColumns == {"TOTAL", "DIESEL", "BEV", "PHEV", "HYBRID", "ALL_HYBRIDS"}

\* the cells of the total row, as text
KbaCells == {"0", "40", "100", "n/a", "-5"}

\* the columns the header names, each with its cell of the total row
KbaInputs == UNION {[cols -> KbaCells] : cols \in SUBSET KbaColumns}

KbaInit ==
    /\ uIn \in {[op |-> "kba", columns |-> c] : c \in KbaInputs}
    /\ uOut = [done |-> FALSE]
    /\ NoEnv /\ NoRun /\ NoOrch

CallParseKbaExcel ==
    /\ uIn.op = "kba" /\ ~uOut.done
    /\ uOut' = [done |-> TRUE, fuelData |-> ParseKbaTotals(uIn.columns)]
    /\ UNCHANGED <<uIn, envVars, runVars, orch>>

KbaNext == CallParseKbaExcel

SpecKba == KbaInit /\ [][KbaNext]_vars

\* the number a cell of the total row shows (0 when it shows none or is absent)
KbaShown(columns, x) ==
    IF x \notin DOMAIN columns THEN 0
    ELSE CASE columns[x] = "0"   -> 0
           [] columns[x] = "40"  -> 40
           [] columns[x] = "100" -> 100
           [] columns[x] = "-5"  -> 0 - 5
           [] OTHER              -> 0

\* a bucket as the code subtracts it: the shown number when it is positive
KbaPositive(columns, x) == IF KbaShown(columns, x) > 0 THEN KbaShown(columns, x) ELSE 0

(* C19: in parseKbaExcel, when the residual - the reported total minus the
   subtracted buckets - is zero or negative, no GASOLINE entry is produced, and
   no entry returned has a non-positive total. *)
C19_ResidualClamp ==
    (uIn.op = "kba" /\ uOut.done) =>
        LET c          == uIn.columns
            bev        == KbaPositive(c, "BEV")
            diesel     == KbaPositive(c, "DIESEL")
            allHybrids == IF "ALL_HYBRIDS" \in DOMAIN c THEN KbaShown(c, "ALL_HYBRIDS")
                          ELSE bev + diesel + KbaPositive(c, "PHEV") + KbaPositive(c, "HYBRID")
            residual   == KbaShown(c, "TOTAL") - diesel - allHybrids - bev
        IN  /\ residual <= 0 =>
                 \A k \in 1..Len(uOut.fuelData) : uOut.fuelData[k].energie # "GASOLINE"
            /\ \A k \in 1..Len(uOut.fuelData) : uOut.fuelData[k].total > 0

\* the spec's example: total 100, buckets of 40 + 40 + 40 = 120, no GASOLINE
C19_Witness ==
    /\ uIn.op = "kba" /\ uOut.done
    /\ uIn.columns = [x \in {"TOTAL", "DIESEL", "BEV", "ALL_HYBRIDS"} |->
                         IF x = "TOTAL" THEN "100" ELSE "40"]
    /\ Len(uOut.fuelData) = 2
    /\ \A k \in 1..Len(uOut.fuelData) : uOut.fuelData[k].energie # "GASOLINE"

-----------------------------------------------------------------------------
(* Candidate URLs of one month: fetchAceaPdf (ACEA) and fetchMonthData (DE) *)

\* getKbaFileUrls(year, month), by the statistic each file name carries
KbaFileUrls == <<"FZ10/fz10", "FZ7/fz7", "FZ13/fz13", "FZ/fz">>

\* getAceaPdfUrls(year, month), by the separators around the month name
AceaPdfUrls == <<"registrations_M_Y", "registrations-M_Y", "registrations_M-Y",
                 "registrations_MY">>

\* how fetchFile(url) settles: resolved with the buffer once a 200 response has
\* ended, rejected with 'HTTP error' on another status, rejected on a
\* request error
FetchOutcomes == {"resolved", "http error", "request error"}

\* parseKbaExcel(buffer): null when the header row or the total row is not
\* found (or the workbook cannot be read), else the fuelData of the total row
ParseKbaExcel(buffer) ==
    IF ~buffer.totalRow THEN [null |-> TRUE, fuelData |-> <<>>]
    ELSE [null |-> FALSE, fuelData |-> ParseKbaTotals(buffer.columns)]

\* variant: fetchAceaPdf never returns from inside the loop
AceaReturnsNever(outcome) == FALSE

\* fetchAceaPdf leaves the loop when `await fetchFile(url)` does not throw
AceaReturns(outcome) == outcome.fetch = "resolved"

\* fetchMonthData leaves the loop when fetchFile did not throw and
\* fuelData && Object.keys(fuelData).length > 0
DeReturns(outcome) ==
    /\ outcome.fetch = "resolved"
    /\ LET fuelData == ParseKbaExcel(outcome.buffer)
       IN  ~fuelData.null /\ DEHasData(fuelData.fuelData)

\* one iteration of `for (const url of urls)`: request the URL, return or go on
TryUrl(returns) ==
    LET k == uOut.next
    IN  uOut' = [uOut EXCEPT !.requested = Append(@, k),
                             !.next      = k + 1,
                             !.done      = returns,
                             !.result    = IF returns THEN "found" ELSE @,
                             !.from      = IF returns THEN k ELSE @]

\* the statement after the loop: throw 'Unable to fetch ACEA PDF' / return null
NotFound == uOut' = [uOut EXCEPT !.done = TRUE, !.result = "not found"]

-----------------------------------------------------------------------------
(* SpecUrls: the candidate loops, one request per step *)

\* workbooks a KBA URL may serve: no total row, a total row of zeros, a
\* total row with registrations
KbaBuffers ==
    { [totalRow |-> FALSE, columns |-> [x \in {"TOTAL"} |-> "0"]],
      [totalRow |-> TRUE,  columns |-> [x \in {"TOTAL", "BEV"} |-> "0"]],
      [totalRow |-> TRUE,  columns |-> [x \in {"TOTAL", "BEV"} |->
                                           IF x = "TOTAL" THEN "100" ELSE "40"]] }

PdfBuffer == [totalRow |-> FALSE, columns |-> [x \in {"TOTAL"} |-> "0"]]

AceaOutcomes == {[fetch |-> f, buffer |-> PdfBuffer] : f \in FetchOutcomes}

DeOutcomes ==
    {[fetch |-> "resolved", buffer |-> b] : b \in KbaBuffers}
    \cup {[fetch |-> f, buffer |-> PdfBuffer] : f \in FetchOutcomes \ {"resolved"}}

UrlsInit ==
    /\ uIn \in {[op |-> "acea", urls |-> AceaPdfUrls, outcomes |-> o] :
                    o \in [DOMAIN AceaPdfUrls -> AceaOutcomes]}
           \cup {[op |-> "de", urls |-> KbaFileUrls, outcomes |-> o] :
                    o \in [DOMAIN KbaFileUrls -> DeOutcomes]}
    /\ uOut = [done |-> FALSE, next |-> 1, requested |-> <<>>,
               result |-> "pending", from |-> 0]
    /\ NoEnv /\ NoRun /\ NoOrch

AceaTryUrl ==
    /\ uIn.op = "acea" /\ ~uOut.done /\ uOut.next <= Len(uIn.urls)
    /\ TryUrl(AceaReturns(uIn.outcomes[uOut.next]))
    /\ UNCHANGED <<uIn, envVars, runVars, orch>>

AceaThrow ==
    /\ uIn.op = "acea" /\ ~uOut.done /\ uOut.next > Len(uIn.urls)
    /\ NotFound
    /\ UNCHANGED <<uIn, envVars, runVars, orch>>

DeTryUrl ==
    /\ uIn.op = "de" /\ ~uOut.done /\ uOut.next <= Len(uIn.urls)
    /\ TryUrl(DeReturns(uIn.outcomes[uOut.next]))
    /\ UNCHANGED <<uIn, envVars, runVars, orch>>

DeReturnNull ==
    /\ uIn.op = "de" /\ ~uOut.done /\ uOut.next > Len(uIn.urls)
    /\ NotFound
    /\ UNCHANGED <<uIn, envVars, runVars, orch>>

UrlsNext == AceaTryUrl \/ AceaThrow \/ DeTryUrl \/ DeReturnNull

SpecUrls == UrlsInit /\ [][UrlsNext]_vars

\* the candidates are requested in list order, without a gap or a repeat
RequestedInOrder ==
    \A k \in 1..Len(uOut.requested) : uOut.requested[k] = k

\* a candidate returned a success status with a fully read body
Downloaded(k) == uIn.outcomes[k].fetch = "resolved"

\* a candidate the adapter accepts: downloaded and, for DE, holding a total
\* row with at least one positive bucket
Accepted(k) ==
    /\ Downloaded(k)
    /\ uIn.op = "de" =>
          /\ uIn.outcomes[k].buffer.totalRow
          /\ \E x \in DOMAIN uIn.outcomes[k].buffer.columns :
                 x # "TOTAL" /\ KbaShown(uIn.outcomes[k].buffer.columns, x) > 0

(* C20 as stated: for fetchAceaPdf and the DE fetchMonthData the candidate URLs
   are requested strictly in list order, no further candidate is requested
   after one has returned a success status with a fully read body, and the
   month is reported as not found only after every candidate has failed. *)
C20_StopAtFirstDownload ==
    (uIn.op \in {"acea", "de"}) =>
        /\ RequestedInOrder
        /\ \A k \in 1..Len(uOut.requested) :
               Downloaded(uOut.requested[k]) => k = Len(uOut.requested)
        /\ uOut.result = "not found" =>
               /\ Len(uOut.requested) = Len(uIn.urls)
               /\ \A k \in DOMAIN uIn.urls : ~Downloaded(k)

(* C20 amended: the candidate URLs are requested strictly in list order; no
   further candidate is requested after one the adapter accepts - for ACEA a
   success status with a fully read body, for DE such a body that also parses
   to a non-empty fuel table - the result comes from that candidate, and the
   month is reported as not found only after every candidate has been
   requested and none was accepted. *)
C20_CandidateFallthrough ==
    (uIn.op \in {"acea", "de"}) =>
        /\ RequestedInOrder
        /\ \A k \in 1..Len(uOut.requested) :
               Accepted(uOut.requested[k]) => k = Len(uOut.requested)
        /\ uOut.result = "found" =>
               uOut.from = Len(uOut.requested) /\ Accepted(uOut.from)
        /\ uOut.result = "not found" =>
               /\ Len(uOut.requested) = Len(uIn.urls)
               /\ \A k \in DOMAIN uIn.urls : ~Accepted(k)
        /\ (~uOut.done /\ uOut.requested # <<>>) =>
               ~Accepted(uOut.requested[Len(uOut.requested)])

\* DE: the first file downloads but has no total row, the second is requested
\* and accepted, the third is never requested
C20_Witness ==
    /\ uIn.op = "de" /\ uOut.done /\ uOut.result = "found"
    /\ Downloaded(1) /\ ~Accepted(1)
    /\ uOut.requested = <<1, 2>> /\ uOut.from = 2

-----------------------------------------------------------------------------
(* util.js: fetchFile and fetchJson as event handlers of one call *)

\* fetchFile(url, maxRedirects = 5)
DefaultMaxRedirects == 5

\* the chunks of one body, at most
MaxChunks == 2

\* variant: a redirect is followed whatever is left of the allowance
FollowsRedirectUnbounded(statusCode, location, redirectsLeft) ==
    statusCode >= 300 /\ statusCode < 400 /\ location

\* res.statusCode >= 300 && res.statusCode < 400 && res.headers.location
\*   && redirectsLeft > 0
FollowsRedirect(statusCode, location, redirectsLeft) ==
    statusCode >= 300 /\ statusCode < 400 /\ location /\ redirectsLeft > 0

\* fetchJson: res.statusCode < 200 || res.statusCode >= 300
JsonHttpError(statusCode) == statusCode < 200 \/ statusCode >= 300

\* the promise and the request of a call that has just issued request(url,
\* maxRedirects) / https.request(reqOptions)
CallState(redirects) ==
    [done |-> FALSE, outcome |-> "pending", reason |-> "none",
     phase |-> "request", redirectsLeft |-> redirects, requests |-> 1,
     responses |-> 0, resumed |-> 0, chunks |-> 0,
     last |-> [statusCode |-> 0, location |-> FALSE, redirectsLeft |-> redirects]]

\* reject(error): a promise settles once
Reject(st, why) ==
    [st EXCEPT !.done = TRUE, !.outcome = "rejected", !.reason = why]

\* the response callback of fetchFile
FileOnResponse(st, statusCode, location) ==
    LET seen == [st EXCEPT !.responses = @ + 1,
                           !.last = [statusCode |-> statusCode, location |-> location,
                                     redirectsLeft |-> st.redirectsLeft]]
    IN  IF FollowsRedirect(statusCode, location, st.redirectsLeft)
        THEN [seen EXCEPT !.resumed = @ + 1, !.requests = @ + 1,
                          !.redirectsLeft = @ - 1]
        ELSE IF statusCode = 200
        THEN [seen EXCEPT !.phase = "body"]
        ELSE [Reject(seen, "HTTP error") EXCEPT !.resumed = @ + 1, !.phase = "closed"]

\* the response callback of fetchJson
JsonOnResponse(st, statusCode, location) ==
    LET seen == [st EXCEPT !.responses = @ + 1,
                           !.last = [statusCode |-> statusCode, location |-> location,
                                     redirectsLeft |-> st.redirectsLeft]]
    IN  IF JsonHttpError(statusCode)
        THEN [Reject(seen, "HTTP error") EXCEPT !.resumed = @ + 1, !.phase = "closed"]
        ELSE [seen EXCEPT !.phase = "body"]

\* res.on('end'): fetchFile resolves with the buffer, fetchJson with the parsed
\* JSON or rejects with the SyntaxError
OnEnd(st, op, parses) ==
    IF op = "fetchJson" /\ ~parses
    THEN [Reject(st, "SyntaxError") EXCEPT !.phase = "closed"]
    ELSE [st EXCEPT !.done = TRUE, !.outcome = "resolved", !.phase = "closed"]

-----------------------------------------------------------------------------
(* SpecFetch: one call of fetchFile or fetchJson and the events of its
   connection; SpecFetchLive adds that an event that can be delivered is *)

ResponseStatuses == {200, 204, 301, 302, 404, 500}

FetchCalls ==
    {[op |-> "fetchFile", maxRedirects |-> n] : n \in {0, 1, 2, DefaultMaxRedirects}}
    \cup {[op |-> "fetchJson", maxRedirects |-> 0]}

FetchInit ==
    /\ uIn \in FetchCalls
    /\ uOut = CallState(uIn.maxRedirects)
    /\ NoEnv /\ NoRun /\ NoOrch

\* 'response' on the request in flight
Response ==
    /\ uOut.phase = "request"
    /\ \E statusCode \in ResponseStatuses, location \in BOOLEAN :
          uOut' = IF uIn.op = "fetchFile"
                  THEN FileOnResponse(uOut, statusCode, location)
                  ELSE JsonOnResponse(uOut, statusCode, location)
    /\ UNCHANGED <<uIn, envVars, runVars, orch>>

\* 'error' on the request in flight: req.on('error', reject)
RequestError ==
    /\ uOut.phase = "request"
    /\ uOut' = [Reject(uOut, "request error") EXCEPT !.phase = "closed"]
    /\ UNCHANGED <<uIn, envVars, runVars, orch>>

\* 'data' on the response being collected
BodyData ==
    /\ uOut.phase = "body" /\ uOut.chunks < MaxChunks
    /\ uOut' = [uOut EXCEPT !.chunks = @ + 1]
    /\ UNCHANGED <<uIn, envVars, runVars, orch>>

\* 'end' on the response being collected
BodyEnd ==
    /\ uOut.phase = "body"
    /\ \E parses \in BOOLEAN : uOut' = OnEnd(uOut, uIn.op, parses)
    /\ UNCHANGED <<uIn, envVars, runVars, orch>>

\* the connection drops before the end of the body: the response emits
\* 'aborted' / 'error' / 'close', for which no listener is registered; the
\* runtime either ignores the event or ends the process on the unhandled
\* 'error', and the promise is settled in neither case
BodyAborted ==
    /\ uOut.phase = "body"
    /\ \E after \in {"aborted", "process ended"} : uOut' = [uOut EXCEPT !.phase = after]
    /\ UNCHANGED <<uIn, envVars, runVars, orch>>

FetchNext == Response \/ RequestError \/ BodyData \/ BodyEnd \/ BodyAborted

SpecFetch == FetchInit /\ [][FetchNext]_vars

SpecFetchLive == SpecFetch /\ WF_vars(FetchNext)

(* C21: a call of fetchFile(url, maxRedirects) issues at most maxRedirects + 1
   requests; a redirect status received with no redirect left or without a
   location header rejects with an HTTP error; the body of every response not
   returned to the caller is discarded with resume(). *)
C21_BoundedRedirects ==
    (uIn.op = "fetchFile") =>
        /\ uOut.requests <= uIn.maxRedirects + 1
        /\ (/\ uOut.last.statusCode \in {301, 302}
            /\ (uOut.last.redirectsLeft = 0 \/ ~uOut.last.location))
              => (uOut.outcome = "rejected" /\ uOut.reason = "HTTP error")
        /\ uOut.resumed = uOut.responses - (IF uOut.last.statusCode = 200 THEN 1 ELSE 0)
        /\ uOut.last.statusCode = 200 => uOut.phase # "request"

\* a redirect cycle under the default allowance: six requests, six bodies
\* discarded, rejected
C21_Witness ==
    /\ uIn.op = "fetchFile" /\ uIn.maxRedirects = DefaultMaxRedirects
    /\ uOut.requests = DefaultMaxRedirects + 1 /\ uOut.resumed = uOut.requests
    /\ uOut.last.location /\ uOut.last.statusCode = 302
    /\ uOut.outcome = "rejected" /\ uOut.reason = "HTTP error"

(* C22: every call of fetchFile and of fetchJson eventually resolves or
   rejects, whatever events the network delivers, a connection dropped inside
   the body of a 200 response included. *)
C22_FetchSettles == <>(uOut.done)

-----------------------------------------------------------------------------
(* The NL adapter: the fuel-lookup fan-out of fetchMonthData, sub-request by
   sub-request, inside the month loop of fetchAllEVData *)

\* const parallelRequests = 3
ParallelRequests == 3

\* the batches of one month, at most
MaxBatches == 4

\* batches.slice(i, i + parallelRequests), by batch index (from 0)
BatchChunk(from, nBatches) ==
    {b \in 0..(nBatches - 1) : b >= from /\ b < from + ParallelRequests}

\* a sub-request whose promise is pending on a fetchJson call
InFlight(sub) == {b \in DOMAIN sub : sub[b].state = "in flight"}

\* variant: the chunk is joined as soon as one of its promises has settled
AnySettled(sub, chunk) == \E b \in chunk : sub[b].state \in {"data", "empty"}

\* await Promise.all(promises): every promise of the chunk has settled (none
\* of them rejects, each body catching its errors)
AllSettled(sub, chunk) == \A b \in chunk : sub[b].state \in {"data", "empty"}

\* variant: a failed retry is followed by another delay and another retry
AfterFailureAgain(attempts) == "delay"

\* the catch blocks of a sub-request: after the first failure wait and retry,
\* after the failure of the retry `return []`
AfterFailure(attempts) == IF attempts = 1 THEN "delay" ELSE "empty"

\* the aggregation loop: one count per record; a batch with data holds one
\* record here, `[]` none
Aggregate(fuelCount, sub, chunk) ==
    fuelCount + Cardinality({b \in chunk : sub[b].state = "data"})

\* the fuelCounts fetchMonthData returns, as the fuel table of the month
FuelCounts(fuelCount) ==
    IF fuelCount > 0 THEN <<[energie |-> "BEV", total |-> fuelCount]>> ELSE <<>>

-----------------------------------------------------------------------------
(* SpecNLFan: two missing months, each with up to MaxBatches batches *)

NLFanMonths == {1, 2}

NLFanInit ==
    /\ uIn \in {[op |-> "nl months", batches |-> n] : n \in [NLFanMonths -> 0..MaxBatches]}
    /\ uOut = [done |-> FALSE, pc |-> "month", m |-> 1, i |-> 0, sub |-> <<>>,
               fuelCount |-> 0, joined |-> {}, failed |-> {},
               written |-> {}, skipped |-> {}]
    /\ NoEnv /\ NoRun /\ NoOrch

\* fetchMonthData(monthInfo.code) up to the chunk loop: the vehicles are
\* listed and cut into batches
NLBeginMonth ==
    /\ uIn.op = "nl months" /\ uOut.pc = "month"
    /\ uOut' = [uOut EXCEPT !.pc = "chunk", !.i = 0, !.fuelCount = 0, !.sub = <<>>]
    /\ UNCHANGED <<uIn, envVars, runVars, orch>>

\* batchChunk.map(async ...): every body runs to its first await fetchJson
NLStartChunk ==
    /\ uIn.op = "nl months" /\ uOut.pc = "chunk" /\ uOut.i < uIn.batches[uOut.m]
    /\ LET chunk == BatchChunk(uOut.i, uIn.batches[uOut.m])
       IN  uOut' = [uOut EXCEPT
                       !.pc = "join",
                       !.sub = [b \in chunk \cup DOMAIN uOut.sub |->
                                   IF b \in chunk
                                   THEN [state |-> "in flight", attempts |-> 1]
                                   ELSE uOut.sub[b]]]
    /\ UNCHANGED <<uIn, envVars, runVars, orch>>

\* a fetchJson of the chunk settles: resolved, the body returns the data;
\* rejected, the catch block of that attempt runs
NLSubSettles ==
    /\ uIn.op = "nl months"
    /\ \E b \in InFlight(uOut.sub), resolved \in BOOLEAN :
          LET next == IF resolved THEN "data" ELSE AfterFailure(uOut.sub[b].attempts)
          IN  uOut' = [uOut EXCEPT
                          !.sub[b].state = next,
                          !.failed = IF next = "empty" THEN @ \cup {<<uOut.m, b>>} ELSE @]
    /\ UNCHANGED <<uIn, envVars, runVars, orch>>

\* the 1000 ms timer of a failed sub-request fires: `await fetchJson(fuelUrl)`
NLRetry ==
    /\ uIn.op = "nl months"
    /\ \E b \in DOMAIN uOut.sub :
          /\ uOut.sub[b].state = "delay"
          /\ uOut' = [uOut EXCEPT
                         !.sub[b] = [state |-> "in flight", attempts |-> @.attempts + 1]]
    /\ UNCHANGED <<uIn, envVars, runVars, orch>>

\* Promise.all resolves: aggregate the results, wait 200 ms, next chunk
NLJoinChunk ==
    /\ uIn.op = "nl months" /\ uOut.pc = "join"
    /\ LET chunk == BatchChunk(uOut.i, uIn.batches[uOut.m])
       IN  /\ AllSettled(uOut.sub, chunk)
           /\ uOut' = [uOut EXCEPT
                          !.pc = "chunk", !.i = @ + ParallelRequests,
                          !.fuelCount = Aggregate(@, uOut.sub, chunk),
                          !.joined = @ \cup {<<uOut.m, b>> : b \in chunk}]
    /\ UNCHANGED <<uIn, envVars, runVars, orch>>

\* the chunk loop is over: fetchMonthData returns fuelCounts and the loop body
\* of fetchAllEVData saves the month or skips it, then goes to the next month
NLFinishMonth ==
    /\ uIn.op = "nl months" /\ uOut.pc = "chunk" /\ uOut.i >= uIn.batches[uOut.m]
    /\ LET saved == NLHasData(FuelCounts(uOut.fuelCount))
           last  == uOut.m + 1 \notin NLFanMonths
       IN  uOut' = [uOut EXCEPT
                       !.written = IF saved THEN @ \cup {uOut.m} ELSE @,
                       !.skipped = IF saved THEN @ ELSE @ \cup {uOut.m},
                       !.m = @ + 1,
                       !.pc = IF last THEN "end" ELSE "month",
                       !.done = last]
    /\ UNCHANGED <<uIn, envVars, runVars, orch>>

NLFanNext ==
    NLBeginMonth \/ NLStartChunk \/ NLSubSettles \/ NLRetry \/ NLJoinChunk
        \/ NLFinishMonth

SpecNLFan == NLFanInit /\ [][NLFanNext]_vars

(* C23: in the NL adapter a failed fuel-lookup batch is retried exactly once
   and never more; if the retry fails as well the month is skipped: no record
   is persisted for it, so it remains missing for the next run. *)
C23_RetryOnceThenSkip ==
    (uIn.op = "nl months") =>
        /\ \A b \in DOMAIN uOut.sub : uOut.sub[b].attempts <= 2
        /\ \A f \in uOut.failed : f[1] \notin uOut.written

(* C25: in NL fetchMonthData at most 3 fuel-lookup sub-requests, retries
   included, are in flight at any moment; every sub-request of a chunk has
   completed and been aggregated before a sub-request of the next chunk
   starts; all chunks of a month are joined before its record is written or
   the next month begins. *)
C25_BoundedFanOut ==
    (uIn.op = "nl months") =>
        /\ Cardinality(InFlight(uOut.sub)) <= 3
        /\ uOut.pc \in {"chunk", "join"} =>
               /\ \A b \in DOMAIN uOut.sub :
                      <<uOut.m, b>> \in uOut.joined =>
                          uOut.sub[b].state \in {"data", "empty"}
               /\ \A b \in DOMAIN uOut.sub : \A a \in 0..(MaxBatches - 1) :
                      (a \div 3) < (b \div 3) => <<uOut.m, a>> \in uOut.joined
        /\ \A m \in NLFanMonths :
               (m \in uOut.written \cup uOut.skipped \/ m < uOut.m) =>
                   \A b \in 0..(uIn.batches[m] - 1) : <<m, b>> \in uOut.joined
        /\ uOut.pc \in {"month", "end"} =>
               \A b \in DOMAIN uOut.sub : uOut.sub[b].state \in {"data", "empty"}

\* the second chunk of the second month is in flight, one of the first chunk
\* having needed its retry, three having been in flight
C25_Witness ==
    /\ uIn.op = "nl months" /\ uOut.m = 2 /\ uOut.pc = "join" /\ uOut.i = 3
    /\ InFlight(uOut.sub) = {3}
    /\ uOut.sub[0].attempts = 2
    /\ {<<2, 0>>, <<2, 1>>, <<2, 2>>} \subseteq uOut.joined
    /\ 1 \in uOut.written

-----------------------------------------------------------------------------
(* The counters of fetchAllEVData in the NL, DE and NO adapters *)

\* NL / DE: the body of `for (const monthInfo of missingMonths)` on month k:
\* save and successCount++ when the fuel table is non-empty, else errorCount++;
\* a throw of saveMonthlyData lands in the catch, errorCount++
CountMonthly(st, k, month) ==
    IF month.data = "data"
    THEN IF month.write = "ok"
         THEN [st EXCEPT !.files = @ \cup {k}, !.successCount = @ + 1]
         ELSE [st EXCEPT !.errorCount = @ + 1]
    ELSE [st EXCEPT !.errorCount = @ + 1]

\* NO saveMonthlyData(monthCode, fuelData): false when no total is positive,
\* else the file is written (or writeFileSync throws) and true is returned
NOSaveReturns(month) ==
    IF month.data = "zeros" THEN "false"
    ELSE IF month.write = "ok" THEN "true" ELSE "throws"

\* NO, the loop after a batch that was fetched: `if (results[monthCode])`,
\* `if (saved) totalSaved++`; a throw leaves the loop for the catch block
NOCountSaved(st, k, month) ==
    IF month.data = "absent" THEN st
    ELSE CASE NOSaveReturns(month) = "true" ->
                 [st EXCEPT !.files = @ \cup {k}, !.totalSaved = @ + 1]
           [] NOSaveReturns(month) = "false" -> st
           [] OTHER -> [st EXCEPT !.phase = "fallback", !.k = 0]

\* NO, the fallback loop on one month: fetch it alone,
\* `if (results[monthCode]) { saveMonthlyData(...); totalSaved++; }`, with
\* its own catch
NOCountFallback(st, k, month) ==
    IF month.single = "throws" \/ month.data = "absent" THEN st
    ELSE CASE NOSaveReturns(month) = "true" ->
                 [st EXCEPT !.files = @ \cup {k}, !.totalSaved = @ + 1]
           [] NOSaveReturns(month) = "false" -> [st EXCEPT !.totalSaved = @ + 1]
           [] OTHER -> st

-----------------------------------------------------------------------------
(* SpecCount: one run of fetchAllEVData over two missing months (one batch
   for NO) *)

CountMonths == {1, 2}

\* what the source has for a month, whether the month can be fetched alone,
\* whether its file can be written
MonthlyCases == [data : {"data", "none"}, single : {"ok"}, write : {"ok", "throws"}]

NOCases == [data : {"data", "zeros", "absent"}, single : {"ok", "throws"},
            write : {"ok", "throws"}]

CountInit ==
    /\ uIn \in {[op |-> "count", adapter |-> a, batch |-> "ok", months |-> ms] :
                   a \in {"NL", "DE"}, ms \in [CountMonths -> MonthlyCases]}
           \cup {[op |-> "count", adapter |-> "NO", batch |-> b, months |-> ms] :
                   b \in {"ok", "throws"}, ms \in [CountMonths -> NOCases]}
    /\ uOut = [done |-> FALSE, phase |-> "start", k |-> 0, files |-> {},
               attempted |-> {}, successCount |-> 0, errorCount |-> 0,
               totalSaved |-> 0]
    /\ NoEnv /\ NoRun /\ NoOrch

\* the step to the next month of the loop in progress, or out of it
Advance(st) ==
    IF st.k + 1 \in CountMonths THEN [st EXCEPT !.k = @ + 1]
    ELSE [st EXCEPT !.phase = "complete", !.done = TRUE]

\* NL and DE: the next month of the loop
CountMonthlyStep ==
    /\ uIn.op = "count" /\ uIn.adapter \in {"NL", "DE"} /\ ~uOut.done
    /\ LET st == Advance([uOut EXCEPT !.phase = "loop"])
       IN  uOut' = IF st.done THEN st
                   ELSE [CountMonthly(st, st.k, uIn.months[st.k])
                            EXCEPT !.attempted = @ \cup {st.k}]
    /\ UNCHANGED <<uIn, envVars, runVars, orch>>

\* NO: await fetchMonthsBatch(monthCodes)
NOCountBatch ==
    /\ uIn.op = "count" /\ uIn.adapter = "NO" /\ uOut.phase = "start"
    /\ uOut' = [uOut EXCEPT !.phase = IF uIn.batch = "ok" THEN "save" ELSE "fallback"]
    /\ UNCHANGED <<uIn, envVars, runVars, orch>>

\* NO: the next month of the save loop of a fetched batch
NOCountSaveStep ==
    /\ uIn.op = "count" /\ uIn.adapter = "NO" /\ uOut.phase = "save"
    /\ LET st == Advance(uOut)
       IN  uOut' = IF st.done THEN st ELSE NOCountSaved(st, st.k, uIn.months[st.k])
    /\ UNCHANGED <<uIn, envVars, runVars, orch>>

\* NO: the next month of the fallback loop
NOCountFallbackStep ==
    /\ uIn.op = "count" /\ uIn.adapter = "NO" /\ uOut.phase = "fallback"
    /\ LET st == Advance(uOut)
       IN  uOut' = IF st.done THEN st ELSE NOCountFallback(st, st.k, uIn.months[st.k])
    /\ UNCHANGED <<uIn, envVars, runVars, orch>>

CountNext == CountMonthlyStep \/ NOCountBatch \/ NOCountSaveStep \/ NOCountFallbackStep

SpecCount == CountInit /\ [][CountNext]_vars

(* C24: at completion of fetchAllEVData in NL, DE and NO the reported number
   of saved files equals the number of record files written in the run, the
   NO fallback included; in NL and DE every attempted month is counted exactly
   once, as success or as error. *)
C24_CountAccuracy ==
    (uIn.op = "count" /\ uOut.done) =>
        /\ uIn.adapter \in {"NL", "DE"} =>
              /\ uOut.successCount = Cardinality(uOut.files)
              /\ uOut.successCount + uOut.errorCount = Cardinality(uOut.attempted)
        /\ uIn.adapter = "NO" => uOut.totalSaved = Cardinality(uOut.files)

-----------------------------------------------------------------------------
(* SpecJsonOrder: parseJsonStat applied to responses that declare their
   dimensions in several orders *)

\* response.id, the order in which the response declares its dimensions
JsonOrders ==
    { <<"TypeRegistrering", "DrivstoffType", "ContentsCode", "Tid">>,
      <<"TypeRegistrering", "Tid", "ContentsCode", "DrivstoffType">>,
      <<"DrivstoffType", "TypeRegistrering", "ContentsCode", "Tid">>,
      <<"Tid", "DrivstoffType", "TypeRegistrering", "ContentsCode">> }

\* the registrations the source holds for the fuel and the period numbered
\* iFuel and iTime in their dimensions
Registrations(iFuel, iTime) == 10 * (iFuel + 1) + iTime + 1

\* the position of a dimension in the declared order
OrderPos(id, name) == CHOOSE k \in DOMAIN id : id[k] = name

\* the response for a declared order: its size vector and its flat array in
\* row-major order of the declared dimensions
DeclaredResponse(id, fi, ti) ==
    LET F == Cardinality(DOMAIN fi)
        T == Cardinality(DOMAIN ti)
        fuelFirst == OrderPos(id, "DrivstoffType") < OrderPos(id, "Tid")
    IN  [id |-> id, fuelIndex |-> fi, tidIndex |-> ti,
         size  |-> [k \in DOMAIN id |-> IF id[k] = "DrivstoffType" THEN F
                                          ELSE IF id[k] = "Tid" THEN T ELSE 1],
         value |-> [k \in 1..(F * T) |->
                       IF fuelFirst THEN Registrations((k - 1) \div T, (k - 1) % T)
                       ELSE Registrations((k - 1) % F, (k - 1) \div F)]]

JsonOrderInit ==
    /\ uIn \in {[op |-> "jsonstat order", response |-> DeclaredResponse(id, fi, ti)] :
                   id \in JsonOrders,
                   fi \in UNION {Indexes(c) : c \in JsonFuelCodeSets},
                   ti \in UNION {Indexes(c) : c \in JsonPeriodSets}}
    /\ uOut = [done |-> FALSE]
    /\ NoEnv /\ NoRun /\ NoOrch

CallParseJsonStatDeclared ==
    /\ uIn.op = "jsonstat order" /\ ~uOut.done
    /\ uOut' = [done |-> TRUE, results |-> ParseJsonStat(uIn.response)]
    /\ UNCHANGED <<uIn, envVars, runVars, orch>>

JsonOrderNext == CallParseJsonStatDeclared

SpecJsonOrder == JsonOrderInit /\ [][JsonOrderNext]_vars

(* C27: for any order in which the response declares its dimensions, with the
   matching size vector, parseJsonStat reconstructs the same period -> fuel ->
   value mapping as for [registration-type, fuel-type, measure, period]. *)
C27_OrderIndependent ==
    (uIn.op = "jsonstat order" /\ uOut.done) =>
        LET r == uIn.response
        IN  uOut.results =
                [p \in DOMAIN r.tidIndex |->
                    [f \in DOMAIN r.fuelIndex |->
                        Registrations(r.fuelIndex[f], r.tidIndex[p])]]

-----------------------------------------------------------------------------
(* Residual derivation of parseKbaExcel, under SpecKba *)

RECURSIVE SumTotals(_)
\* the sum of the totals of the entries of a fuel table
SumTotals(fuelData) ==
    IF fuelData = <<>> THEN 0 ELSE Head(fuelData).total + SumTotals(Tail(fuelData))

\* the all-hybrids column, where the header has one, shows the sum of the
\* plug-in and the other hybrids
KbaConsistent(columns) ==
    "ALL_HYBRIDS" \in DOMAIN columns =>
        KbaShown(columns, "ALL_HYBRIDS")
            = KbaPositive(columns, "PHEV") + KbaPositive(columns, "HYBRID")

(* C26: in parseKbaExcel, with or without an all-hybrids column, whenever a
   GASOLINE entry is recorded it equals the reported total minus the sum of the
   other recorded buckets, each subtracted once, and the recorded entries
   never sum to more than the reported total. *)
C26_ResidualDerivation ==
    (uIn.op = "kba" /\ uOut.done /\ KbaConsistent(uIn.columns)) =>
        \A k \in 1..Len(uOut.fuelData) :
            uOut.fuelData[k].energie = "GASOLINE" =>
                /\ SumTotals(uOut.fuelData) <= KbaShown(uIn.columns, "TOTAL")
                /\ uOut.fuelData[k].total =
                       KbaShown(uIn.columns, "TOTAL")
                           - (SumTotals(uOut.fuelData) - uOut.fuelData[k].total)

-----------------------------------------------------------------------------
(* The SE adapter: the rows of the CSV grouped by month and fuel code *)

\* month.match(/^(\d{4})M(\d{2})$/)
SEMonthPattern(month) ==
    /\ Len(month) = 7
    /\ AllDigits(SubSeq(month, 1, 4))
    /\ CharAt(month, 5) = "M"
    /\ AllDigits(SubSeq(month, 6, 7))

\* `${year}-${monthNum.toString().padStart(2, '0')}`
SEKey(month) ==
    MonthCode(ParseIntOrZero(SubSeq(month, 1, 4)), ParseIntOrZero(SubSeq(month, 6, 7)))

\* monthlyData[key].byFuel[fuelCode] = (... || 0) + count, the objects being
\* created on first use
SEAddCount(monthlyData, key, fuelCode, count) ==
    LET old == IF key \in DOMAIN monthlyData THEN monthlyData[key] ELSE <<>>
        new == [c \in (DOMAIN old) \cup {fuelCode} |->
                   (IF c \in DOMAIN old THEN old[c] ELSE 0) + (IF c = fuelCode THEN count ELSE 0)]
    IN  [k \in (DOMAIN monthlyData) \cup {key} |-> IF k = key THEN new ELSE monthlyData[k]]

\* monthlyData[key] = { year, month, byFuel: {} } when the key is new
SETouch(monthlyData, key) ==
    [k \in (DOMAIN monthlyData) \cup {key} |->
        IF k \in DOMAIN monthlyData THEN monthlyData[k] ELSE <<>>]

\* the body of `for (const row of records)`
SERowStep(monthlyData, row) ==
    IF ~Includes(row.region, "00 Sweden") THEN monthlyData
    ELSE IF ~SEMonthPattern(row.month) THEN monthlyData
    ELSE LET fuelCode == NormalizeSwedishFuel(Label(row.fuel))
         IN  IF fuelCode # "OTHER" /\ fuelCode # "UNKNOWN"
             THEN SEAddCount(monthlyData, SEKey(row.month), fuelCode,
                             ParseIntOrZero(row.count))
             ELSE SETouch(monthlyData, SEKey(row.month))

RECURSIVE SEGroup(_, _, _)
\* the grouping loop over records k..
SEGroup(records, k, monthlyData) ==
    IF k > Len(records) THEN monthlyData
    ELSE SEGroup(records, k + 1, SERowStep(monthlyData, records[k]))

\* the data array of a month: the fuel codes with a positive total
SEDataOf(byFuel) ==
    [c \in {x \in DOMAIN byFuel : byFuel[x] > 0} |-> byFuel[c]]

\* the records of fetchAndProcessCSV by file key: the months with a non-empty
\* data array
SECsvRecords(records) ==
    LET monthlyData == SEGroup(records, 1, <<>>)
    IN  [key \in {k \in DOMAIN monthlyData : DOMAIN SEDataOf(monthlyData[k]) # {}} |->
            SEDataOf(monthlyData[key])]

-----------------------------------------------------------------------------
(* SpecCsv: fetchAndProcessCSV applied to short CSV files *)

\* the rows of one CSV, at most
MaxCsvRows == 2

SECsvRows ==
    [region : {"00 Sweden", "01 Stockholm county"},
     fuel   : {"electricity", "other fuels", "Petrol"},
     month  : {"2024M01", "2024M02", "2024-01"},
     count  : {"5"}]

SECsvFiles == UNION {[1..n -> SECsvRows] : n \in 1..MaxCsvRows}

CsvInit ==
    /\ uIn \in {[op |-> "se csv", records |-> r] : r \in SECsvFiles}
    /\ uOut = [done |-> FALSE]
    /\ NoEnv /\ NoRun /\ NoOrch

CallFetchAndProcessCSV ==
    /\ uIn.op = "se csv" /\ ~uOut.done
    /\ uOut' = [done |-> TRUE, files |-> SECsvRecords(uIn.records)]
    /\ UNCHANGED <<uIn, envVars, runVars, orch>>

CsvNext == CallFetchAndProcessCSV

SpecCsv == CsvInit /\ [][CsvNext]_vars

\* the fuel code a row's label stands for
SERowCode(row) ==
    CASE row.fuel = "electricity" -> "BEV"
      [] row.fuel = "Petrol"      -> "GASOLINE"
      [] OTHER                    -> "OTHER"

\* the file key of a period
SEPeriodKey(month) ==
    CASE month = "2024M01" -> "2024-01"
      [] month = "2024M02" -> "2024-02"
      [] OTHER             -> "none"

\* the sum of the counts (5 each) of the national rows of a period with code c
SENationalSum(records, key, c) ==
    5 * Cardinality({k \in 1..Len(records) :
                        /\ records[k].region = "00 Sweden"
                        /\ SEPeriodKey(records[k].month) = key
                        /\ SERowCode(records[k]) = c})

\* the total recorded for code c in the record of a period, 0 without entry
SERecorded(files, key, c) ==
    IF key \in DOMAIN files /\ c \in DOMAIN files[key] THEN files[key][c] ELSE 0

(* C28: in the SE adapter, for every period and every canonical fuel code c,
   OTHER included, the total recorded for c in the period's record equals the
   sum of the counts of the national rows ('00 Sweden') of that period whose
   label normalizes to c; sub-national rows contribute nothing and a row whose
   period does not parse is skipped. *)
C28_CsvAccumulation ==
    (uIn.op = "se csv" /\ uOut.done) =>
        /\ DOMAIN uOut.files \subseteq {"2024-01", "2024-02"}
        /\ \A key \in {"2024-01", "2024-02"} : \A c \in CanonicalCodes :
               SERecorded(uOut.files, key, c) = SENationalSum(uIn.records, key, c)

-----------------------------------------------------------------------------
(* SpecColumns: the French extraction applied to sheets whose period column
   is the first or the second column of the header *)

\* header rows with the fuel code each column stands for ("": the period)
ColumnLayouts ==
    { [header |-> <<"Period", "Diesel", "Gazole (thermique)", "Electrique">>,
       codes  |-> <<"", "DIESEL", "DIESEL", "BEV">>],
      [header |-> <<"Diesel", "Period", "Gazole (thermique)", "Electrique">>,
       codes  |-> <<"DIESEL", "", "DIESEL", "BEV">>] }

ColumnPeriods == {"2023_05", "2024_11", "Total"}

ColumnValues == {"100", "0", "-3"}

\* the first column of the layout that no fuel claims
PeriodColumn(layout) ==
    CHOOSE j \in 1..Len(layout.codes) :
        layout.codes[j] = "" /\ \A k \in 1..(j - 1) : layout.codes[k] # ""

\* a data row: the period in the period column, the values in the fuel
\* columns, in order
DataRow(layout, period, values) ==
    [j \in 1..Len(layout.codes) |->
        IF j = PeriodColumn(layout) THEN period
        ELSE values[Cardinality({k \in 1..j : layout.codes[k] # ""})]]

ColumnsInit ==
    /\ uIn \in {[op |-> "columns", layout |-> l,
                 rows |-> <<l.header, DataRow(l, p, v)>>] :
                   l \in ColumnLayouts, p \in ColumnPeriods,
                   v \in [1..3 -> ColumnValues]}
    /\ uOut = [done |-> FALSE]
    /\ NoEnv /\ NoRun /\ NoOrch

CallFRExtractColumns ==
    /\ uIn.op = "columns" /\ ~uOut.done
    /\ uOut' = [done |-> TRUE, files |-> FRExtract(uIn.rows)]
    /\ UNCHANGED <<uIn, envVars, runVars, orch>>

ColumnsNext == CallFRExtractColumns

SpecColumns == ColumnsInit /\ [][ColumnsNext]_vars

\* the number a value cell shows
ShownValue(cell) == IF cell = "100" THEN 100 ELSE IF cell = "-3" THEN 0 - 3 ELSE 0

\* the sum of the positive values of the columns of the data row that stand
\* for code c
ExpectedTotal(layout, row, c) ==
    LET F[j \in 0..Len(row)] ==
            IF j = 0 THEN 0
            ELSE F[j - 1] + (IF layout.codes[j] = c /\ ShownValue(row[j]) > 0
                             THEN ShownValue(row[j]) ELSE 0)
    IN  F[Len(row)]

\* the record expected for the data row: per fuel code its positive sum
ExpectedData(layout, row) ==
    {<<c, ExpectedTotal(layout, row, c)>> : c \in {x \in {"DIESEL", "BEV"} :
                                                   ExpectedTotal(layout, row, x) > 0}}

(* C29: in the spreadsheet extractors the period column is the first column of
   the header row that no fuel mapping claims, also when column 0 is itself a
   fuel column, and every following row whose cell in that column matches the
   period pattern yields a record in which the values of the columns mapped to
   one fuel code are summed and zero or negative values are dropped. *)
C29_DateColumn ==
    (uIn.op = "columns" /\ uOut.done) =>
        LET row    == uIn.rows[2]
            period == row[PeriodColumn(uIn.layout)]
            name   == SubSeq(period, 1, 4) \o "-" \o SubSeq(period, 6, 7) \o ".json"
            expect == ExpectedData(uIn.layout, row)
        IN  IF period # "Total" /\ expect # {}
            THEN /\ DOMAIN uOut.files = {name}
                 /\ LET data == uOut.files[name].data
                    IN  {<<data[k].energie, data[k].total>> : k \in 1..Len(data)} = expect
            ELSE DOMAIN uOut.files = {}

-----------------------------------------------------------------------------
(* InsufficientData of parsePdfData, under SpecPdf *)

\* the number of tokens the position layout applied to n tokens reads: the
\* normal layout reads up to token 10, the layout without hybrid pair up to
\* token 8
TokensNeeded(n) == IF n >= 14 THEN 11 ELSE 9

(* C30: parsePdfData returns a result only when the country row holds at least
   as many numeric tokens as the position layout it applies needs, so that no
   fuel slot is defaulted to 0 for an index past the end; with fewer tokens it
   throws. *)
C30_InsufficientData ==
    (uIn.op = "pdf" /\ uOut.done) =>
        LET n == DisplayedCounts(uIn.items)
        IN  Len(n) < TokensNeeded(Len(n)) <=> uOut.thrown

====
